---- MODULE Spec2Model ----
(***************************************************************************)
(* A model of the functionless compiler core: the per-API memo tables      *)
(* (unique stage names, data sources), the AppsyncResolver pipeline        *)
(* synthesis, the BaseNode tree with its control-flow queries, and the     *)
(* expression flattener.                                                   *)
(***************************************************************************)
EXTENDS Integers, Sequences, FiniteSets, TLC

VARIABLES
    names,        \* WeakMap<GraphqlApi, {[name]: number}> of getUniqueName
    nameLog,      \* history: the calls of getUniqueName and what they returned
    dataSources,  \* WeakMap<GraphqlApi, WeakMap<any, BaseDataSource>>
    dsLog,        \* history: the calls of getDataSource and their outcome
    created,      \* the data sources constructed so far (object identities)
    decl,         \* AppsyncResolver.decl.body.statements
    resolver,     \* the outcome of addResolver
    nodes,        \* the BaseNode objects constructed so far, by identity 1..n
    roots,        \* the nodes that no constructor has taken as a child yet
    setLog,       \* history: the calls of setParent made directly
    answer,       \* the last control-flow query and what it returned
    limit,        \* the number of nodes the constructors stop at
    given,        \* the arguments the flattener is called with
    flattened,    \* history: what the calls of the flattener returned
    invoked,      \* the $SFN call that is compiled, and its context
    emitted       \* what compiling the $SFN call returned and compiled

memoVars == <<names, nameLog, dataSources, dsLog, created>>
resolverVars == <<decl, resolver>>
astVars == <<nodes, roots, setLog, answer, limit>>
flattenVars == <<given, flattened>>
sfnVars == <<invoked, emitted>>
vars == <<names, nameLog, dataSources, dsLog, created, decl, resolver,
          nodes, roots, setLog, answer, limit, given, flattened,
          invoked, emitted>>

\* JavaScript's undefined
Undefined == "undefined"

\* The GraphqlApi objects calls are made against
Apis == {"api1", "api2"}

\* addResolver has not been called
NoResolver == [status |-> "none"]

\* no control-flow query has been made
NoAnswer == [op |-> "none"]

\* the flattener has not been called
NoFlatten ==
    /\ given = [op |-> "none"]
    /\ flattened = << >>

\* no $SFN call has been compiled
NoSfn ==
    /\ invoked = [fn |-> "none"]
    /\ emitted = [status |-> "none"]

\* no node has been constructed
NoAst ==
    /\ nodes = << >>
    /\ roots = << >>
    /\ setLog = << >>
    /\ answer = NoAnswer
    /\ limit = 0

\* no node has been constructed, and at most max nodes will be
EmptyAst(max) ==
    /\ nodes = << >>
    /\ roots = << >>
    /\ setLog = << >>
    /\ answer = NoAnswer
    /\ limit = max

----------------------------------------------------------------------------
(* getUniqueName *)

\* Logical names handed to getUniqueName; "a_0" has the shape of a suffixed name
LogicalNames == {"a", "a_0", "b"}

MaxNameCalls == 4

\* f with key k set to v (k may be new)
Put(f, k, v) == [x \in (DOMAIN f) \cup {k} |-> IF x = k THEN v ELSE f[x]]

\* names.get(api), with the {} that is stored when the api is new
UniqueNamesOf(nms, api) == IF api \in DOMAIN nms THEN nms[api] ELSE << >>

\* getUniqueName numbering the suffixes from 1
UniqueNameResultFromOne(uniqueNames, name) ==
    IF name \notin DOMAIN uniqueNames
    THEN name
    ELSE name \o "_" \o ToString(uniqueNames[name] + 1)

\* what getUniqueName returns; the counter is undefined when the key is new
UniqueNameResult(uniqueNames, name) ==
    IF name \notin DOMAIN uniqueNames
    THEN name
    ELSE name \o "_" \o ToString(uniqueNames[name])

\* the counter getUniqueName stores back
UniqueNameCounter(uniqueNames, name) ==
    IF name \notin DOMAIN uniqueNames THEN 0 ELSE uniqueNames[name] + 1

\* the names table after getUniqueName(api, name)
NamesAfter(nms, api, name) ==
    LET uniqueNames == UniqueNamesOf(nms, api)
    IN  Put(nms, api, Put(uniqueNames, name, UniqueNameCounter(uniqueNames, name)))

getUniqueName(api, name) ==
    /\ Len(nameLog) < MaxNameCalls
    /\ names' = NamesAfter(names, api, name)
    /\ nameLog' = Append(nameLog,
           [api |-> api, name |-> name,
            result |-> UniqueNameResult(UniqueNamesOf(names, api), name)])
    /\ UNCHANGED <<dataSources, dsLog, created, resolverVars, astVars, flattenVars,
                 sfnVars>>

InitNames ==
    /\ names = << >>
    /\ nameLog = << >>
    /\ dataSources = << >>
    /\ dsLog = << >>
    /\ created = 0
    /\ decl = << >>
    /\ resolver = NoResolver
    /\ NoSfn
    /\ NoFlatten
    /\ NoAst

NextNames == \E api \in Apis, name \in LogicalNames : getUniqueName(api, name)

SpecNames == InitNames /\ [][NextNames]_vars

\* the calls among the first i that asked for the same name in the same api
SameNameCalls(i) ==
    {j \in 1..i : /\ nameLog[j].api = nameLog[i].api
                  /\ nameLog[j].name = nameLog[i].name}

\* C1: in every namespace the k-th request of a logical name returns the name
\* itself for k = 1 and name_(k-2) for k >= 2 (name, name_0, name_1, ...)
C1_SuccessiveNames ==
    \A i \in 1..Len(nameLog) :
        LET k == Cardinality(SameNameCalls(i))
        IN  nameLog[i].result =
                IF k = 1 THEN nameLog[i].name
                ELSE nameLog[i].name \o "_" \o ToString(k - 2)

\* a namespace in which "b" was requested three times: b, b_0, b_1
C1_Witness ==
    \E i, j, k \in 1..Len(nameLog) :
        /\ i < j /\ j < k
        /\ nameLog[i].api = "api1" /\ nameLog[j].api = "api1" /\ nameLog[k].api = "api1"
        /\ nameLog[i].name = "b" /\ nameLog[j].name = "b" /\ nameLog[k].name = "b"
        /\ nameLog[i].result = "b"
        /\ nameLog[j].result = "b_0"
        /\ nameLog[k].result = "b_1"

\* C2: within one namespace no two calls of getUniqueName have returned the
\* same string, whatever logical names were requested
C2_NoCollision ==
    \A i, j \in 1..Len(nameLog) :
        (i # j /\ nameLog[i].api = nameLog[j].api)
            => nameLog[i].result # nameLog[j].result

----------------------------------------------------------------------------
(* getDataSource *)

\* The None object getDataSource uses as key when target is null
None == "None"

\* What getDataSource is asked for: null or a service (CanReference)
Targets == {"null", "table1", "table2"}

\* Whether the compute callback returns a new data source or throws
ComputeOutcomes == {"returns", "throws"}

MaxDsCalls == 4

\* getDataSources(api): the api's map, created empty on first use
getDataSources(dss, api) == IF api \in DOMAIN dss THEN dss[api] ELSE << >>

\* const key = target ?? None
DsKey(target) == IF target = "null" THEN None ELSE target

\* getDataSource that never finds a stored binding
DsHasNever(ds, key) == FALSE

\* ds.has(key)
DsHas(ds, key) == key \in DOMAIN ds

\* the dataSources table after getDataSource(api, target, compute)
DataSourcesAfter(dss, api, target, compute, fresh) ==
    LET ds == getDataSources(dss, api)
        key == DsKey(target)
    IN  IF DsHas(ds, key) \/ compute = "throws"
        THEN Put(dss, api, ds)
        ELSE Put(dss, api, Put(ds, key, fresh))

\* whether getDataSource(api, target, compute) invokes compute
DsComputes(dss, api, target) ==
    ~DsHas(getDataSources(dss, api), DsKey(target))

getDataSource(api, target, compute) ==
    /\ Len(dsLog) < MaxDsCalls
    /\ LET computed == DsComputes(dataSources, api, target)
           threw == computed /\ compute = "throws"
           after == DataSourcesAfter(dataSources, api, target, compute, created + 1)
       IN  /\ dataSources' = after
           /\ created' = IF computed /\ ~threw THEN created + 1 ELSE created
           /\ dsLog' = Append(dsLog,
                  [api |-> api, target |-> target, computed |-> computed,
                   threw |-> threw,
                   result |-> IF threw THEN 0 ELSE after[api][DsKey(target)]])
    /\ UNCHANGED <<names, nameLog, resolverVars, astVars, flattenVars,
                 sfnVars>>

InitDs == InitNames

NextDs ==
    \E api \in Apis, target \in Targets, compute \in ComputeOutcomes :
        getDataSource(api, target, compute)

SpecDs == InitDs /\ [][NextDs]_vars

\* the calls that returned a binding
DsReturned == {i \in 1..Len(dsLog) : ~dsLog[i].threw}

\* the calls for (api, target) in which compute was invoked
DsComputedCalls(api, target) ==
    {i \in 1..Len(dsLog) : /\ dsLog[i].api = api
                           /\ dsLog[i].target = target
                           /\ dsLog[i].computed}

\* calls with the same api and the same target return the identical binding
DsSameBinding ==
    \A i, j \in DsReturned :
        (dsLog[i].api = dsLog[j].api /\ dsLog[i].target = dsLog[j].target)
            => dsLog[i].result = dsLog[j].result

\* a binding created for one api is never returned for another api
DsNotShared ==
    \A i, j \in DsReturned :
        dsLog[i].api # dsLog[j].api => dsLog[i].result # dsLog[j].result

\* C3 as stated: identical binding per (api, target), compute invoked at most
\* once per (api, target), no binding shared between apis
C3_MemoizedComputeOnce ==
    /\ DsSameBinding
    /\ DsNotShared
    /\ \A api \in Apis, target \in Targets :
           Cardinality(DsComputedCalls(api, target)) <= 1

\* C3 amended: identical binding per (api, target), no binding shared between
\* apis, compute returns at most once per (api, target) and is never invoked
\* again after it returned; a compute that throws stores nothing and the next
\* call invokes compute again
C3_MemoizedComputeOncePerSuccess ==
    /\ DsSameBinding
    /\ DsNotShared
    /\ \A api \in Apis, target \in Targets :
           \A i, j \in DsComputedCalls(api, target) :
               (i < j) => dsLog[i].threw

\* the same (api, target) asked for twice, computed once, and another api
\* asked for the same target
C3_Witness ==
    \E i, j, k \in DsReturned :
        /\ i < j
        /\ dsLog[i].api = dsLog[j].api /\ dsLog[i].target = dsLog[j].target
        /\ dsLog[i].computed /\ ~dsLog[j].computed
        /\ dsLog[k].api # dsLog[i].api /\ dsLog[k].target = dsLog[i].target
        /\ \E m \in 1..Len(dsLog) :
               /\ m < k /\ dsLog[m].threw
               /\ dsLog[m].api = dsLog[k].api /\ dsLog[m].target = dsLog[k].target

----------------------------------------------------------------------------
(* AppsyncResolver.addResolver *)

\* The services (CanReference) a function body may refer to
Services == {"table1", "fn1", "express1", "sfn1", "sdk1"}

isTable(service) == service = "table1"
isFunction(service) == service = "fn1"
isStepFunction(service) == service \in {"express1", "sfn1"}
\* service.getStepFunctionType() === StateMachineType.EXPRESS
isExpress(service) == service = "express1"

\* Expression nodes
Ref(service) == [kind |-> "ReferenceExpr", ref |-> service]
Ident(name) == [kind |-> "Identifier", name |-> name]
Call(e) == [kind |-> "CallExpr", expr |-> e]
Prop(e, name) == [kind |-> "PropAccessExpr", expr |-> e, name |-> name]
Element(e, el) == [kind |-> "ElementAccessExpr", expr |-> e, element |-> el]
NumberLiteral == [kind |-> "NumberLiteralExpr"]

\* Statement nodes; a VariableStmt without initializer has no expr
ExprStmt(e) == [kind |-> "ExprStmt", expr |-> e]
ReturnStmt(e) == [kind |-> "ReturnStmt", expr |-> e]
VariableStmt(name, e) == [kind |-> "VariableStmt", name |-> name, expr |-> e]
VariableDecl(name) == [kind |-> "VariableStmt", name |-> name]
IfStmt(e) == [kind |-> "IfStmt", when |-> e]
ThrowStmt(e) == [kind |-> "ThrowStmt", expr |-> e]

\* Expressions over a table: table, table.query(), table.query().items
TableExprs(r) ==
    { r, Call(Prop(r, "query")), Prop(Call(Prop(r, "query")), "items") }

\* Expressions over a function: fn(), fn().items(), fn()[0]
FunctionExprs(r) ==
    { Call(r), Call(Prop(Call(r), "items")), Element(Call(r), NumberLiteral) }

\* An expression that refers to no service
PlainExprs == { Ident("x") }

Exprs ==
    PlainExprs
        \cup TableExprs(Ref("table1")) \cup FunctionExprs(Ref("fn1"))
        \cup { Call(Ref("express1")), Call(Ref("sfn1")), Call(Ref("sdk1")) }

Stmts ==
    {ExprStmt(e) : e \in Exprs} \cup {ReturnStmt(e) : e \in Exprs}
        \cup {VariableStmt("items", e) : e \in Exprs}
        \cup {VariableDecl("items")}
        \cup {IfStmt(Ident("x")), IfStmt(Call(Ref("table1")))}
        \cup {ThrowStmt(Call(Ref("fn1")))}

MaxStmts == 2

\* The function bodies addResolver is given
Bodies == UNION {[1..n -> Stmts] : n \in 0..MaxStmts}

\* the expression of a statement in which a service may be referenced
StmtExpr(stmt) ==
    IF stmt.kind = "IfStmt" THEN stmt.when
    ELSE IF "expr" \in DOMAIN stmt THEN stmt.expr
    ELSE Ident("x")

RECURSIVE ServiceOf(_)
\* the service an expression refers to, undefined when there is none
ServiceOf(expr) ==
    IF expr.kind = "ReferenceExpr" THEN expr.ref
    ELSE IF expr.kind \in {"CallExpr", "PropAccessExpr", "ElementAccessExpr"}
         THEN ServiceOf(expr.expr)
    ELSE Undefined

\* findService(stmt): the service a statement invokes, or undefined
findService(stmt) == ServiceOf(StmtExpr(stmt))

RECURSIVE toName(_)
\* toName(expr): the logical name of a callee
toName(expr) ==
    IF expr.kind = "ReferenceExpr" THEN expr.ref
    ELSE IF expr.kind = "Identifier" THEN expr.name
    ELSE IF expr.kind = "PropAccessExpr" THEN toName(expr.expr) \o "_" \o expr.name
    ELSE "expr"

\* VTL: the statements of a template under construction
NewVTL(circuitBreaker) ==
    IF circuitBreaker THEN <<[op |-> "CircuitBreaker"]>> ELSE << >>
VtlCall(template, expr) == Append(template, [op |-> "call", node |-> expr])
VtlEval(template, stmt) == Append(template, [op |-> "eval", node |-> stmt])
VtlReturn(template, expr) == Append(template, [op |-> "return", node |-> expr])
VtlReturnNull(template) == Append(template, [op |-> "return", text |-> "$null"])
\* template.toVTL(): the rendered template
toVTL(template) == [kind |-> "vtl", statements |-> template]
\* a template given as a string
Text(string) == [kind |-> "text", text |-> string]

\* the request mapping template of a resolver without service calls
MockRequestTemplate ==
    Text("{\n  \"version\": \"2018-05-29\",\n  \"payload\": null\n}")

\* the request mapping template of a pipeline resolver
PipelineRequestTemplate == Text("{}")

NotFound == [kind |-> "Error"]

RECURSIVE findServiceCallExpr(_)
\* the CallExpr that calls the service, NotFound when it throws
findServiceCallExpr(expr) ==
    IF /\ expr.kind = "CallExpr"
       /\ \/ expr.expr.kind = "ReferenceExpr"
          \/ /\ expr.expr.kind = "PropAccessExpr"
             /\ expr.expr.expr.kind = "ReferenceExpr"
    THEN expr
    ELSE IF expr.kind = "PropAccessExpr" THEN findServiceCallExpr(expr.expr)
    ELSE IF expr.kind = "CallExpr" THEN findServiceCallExpr(expr.expr)
    ELSE NotFound

RECURSIVE getResult(_, _)
\* the VTL expression extracting the result, with the calls handed to
\* template.call on the way; err when it throws
getResult(expr, returnValName) ==
    IF expr.kind = "CallExpr"
    THEN [err |-> FALSE, text |-> returnValName, calls |-> <<expr>>, kind |-> ""]
    ELSE IF expr.kind = "PropAccessExpr"
    THEN LET r == getResult(expr.expr, returnValName)
         IN  IF r.err THEN r ELSE [r EXCEPT !.text = @ \o "." \o expr.name]
    ELSE IF expr.kind = "ElementAccessExpr"
    THEN LET r == getResult(expr.expr, returnValName)
             e == getResult(expr.element, returnValName)
         IN  IF r.err THEN r
             ELSE IF e.err THEN [e EXCEPT !.calls = r.calls \o @]
             ELSE [err |-> FALSE, text |-> r.text \o "[" \o e.text \o "]",
                   calls |-> r.calls \o e.calls, kind |-> ""]
    ELSE [err |-> TRUE, text |-> "", calls |-> << >>, kind |-> expr.kind]

\* let returnValName
ReturnValName(service) ==
    IF isStepFunction(service) THEN "$sfn__result" ELSE "$context.result"

\* let pre, with the newline that follows it; empty when undefined
Pre(service) ==
    IF ~isStepFunction(service) THEN ""
    ELSE IF isExpress(service)
    THEN "#if($context.result.statusCode == 200)\n"
         \o "  #set($sfn__result = $util.parseJson($context.result.body))\n"
         \o "  #if($sfn__result.output == 'null')\n"
         \o "    $util.qr($sfn__result.put(\"output\", $null))\n"
         \o "  #else\n"
         \o "    #set($sfn__result.output = $util.parseJson($sfn__result.output))\n"
         \o "  #end\n"
         \o "#else \n"
         \o "  $util.error($context.result.body, \"$context.result.statusCode\")\n"
         \o "#end\n"
    ELSE "#if($context.result.statusCode == 200)\n"
         \o "  #set($sfn__result = $util.parseJson($context.result.body))\n"
         \o "#else \n"
         \o "  $util.error($context.result.body, \"$context.result.statusCode\")\n"
         \o "#end\n"

\* the response mapping template of a stage that returns the call's result
ReturnResponse(service, result) ==
    Pre(service) \o "#set( $context.stash.return__flag = true )\n"
        \o "#set( $context.stash.return__val = " \o result \o " )\n{}"

\* the response mapping template of a stage that binds the call's result
VariableResponse(service, name, result) ==
    Pre(service) \o "#set( $context.stash." \o name \o " = " \o result \o " )\n{}"

\* The state addResolver works on: the memo tables, the VTL under
\* construction, the templates and pipeline functions so far, and the error
\* thrown, if any
CompileState(circuitBreaker, templates) ==
    [names |-> names, nameLog |-> nameLog, dataSources |-> dataSources,
     dsLog |-> dsLog, created |-> created,
     template |-> NewVTL(circuitBreaker), templates |-> templates,
     functions |-> << >>, thrown |-> FALSE, message |-> ""]

\* throw new Error(message)
Throw(st, message) == [st EXCEPT !.thrown = TRUE, !.message = message]

\* getUniqueName(api, name) within a compilation
CallGetUniqueName(st, api, name) ==
    [st EXCEPT
        !.names = NamesAfter(st.names, api, name),
        !.nameLog = Append(st.nameLog,
            [api |-> api, name |-> name,
             result |-> UniqueNameResult(UniqueNamesOf(st.names, api), name)])]

\* getDataSource(api, target, compute) within a compilation
CallGetDataSource(st, api, target, compute) ==
    LET computed == DsComputes(st.dataSources, api, target)
        threw == computed /\ compute = "throws"
        after == DataSourcesAfter(st.dataSources, api, target, compute,
                                  st.created + 1)
    IN  [st EXCEPT
            !.dataSources = after,
            !.created = IF computed /\ ~threw THEN @ + 1 ELSE @,
            !.dsLog = Append(st.dsLog,
                [api |-> api, target |-> target, computed |-> computed,
                 threw |-> threw,
                 result |-> IF threw THEN 0 ELSE after[api][DsKey(target)]])]

\* the callback synthesizeFunctions hands to getDataSource
ServiceCompute(service) ==
    IF isTable(service) \/ isFunction(service) \/ isStepFunction(service)
    THEN "returns"
    ELSE "throws"

\* createStage pushing the response template before the request template
createStageSwapped(st, api, i, dataSource, expr, responseMappingTemplate) ==
    LET requestMappingTemplateString == toVTL(st.template)
        named == CallGetUniqueName(st, api, toName(expr.expr))
        name == named.nameLog[Len(named.nameLog)].result
    IN  [named EXCEPT
            !.templates = @ \o <<Text(responseMappingTemplate),
                                 requestMappingTemplateString>>,
            !.template = NewVTL(TRUE),
            !.functions = Append(@,
                [name |-> name, dataSource |-> dataSource, stmt |-> i,
                 requestMappingTemplate |-> requestMappingTemplateString,
                 responseMappingTemplate |-> Text(responseMappingTemplate)])]

\* createStage(expr, responseMappingTemplate) for statement i
createStage(st, api, i, dataSource, expr, responseMappingTemplate) ==
    LET requestMappingTemplateString == toVTL(st.template)
        named == CallGetUniqueName(st, api, toName(expr.expr))
        name == named.nameLog[Len(named.nameLog)].result
    IN  [named EXCEPT
            !.templates = @ \o <<requestMappingTemplateString,
                                 Text(responseMappingTemplate)>>,
            !.template = NewVTL(TRUE),
            !.functions = Append(@,
                [name |-> name, dataSource |-> dataSource, stmt |-> i,
                 requestMappingTemplate |-> requestMappingTemplateString,
                 responseMappingTemplate |-> Text(responseMappingTemplate)])]

\* template.call for every call getResult visited
RECURSIVE CallAll(_, _)
CallAll(template, calls) ==
    IF calls = << >> THEN template
    ELSE CallAll(VtlCall(template, Head(calls)), Tail(calls))

\* the statement is a variable declaration that may call a service
IsVariableCall(stmt) ==
    /\ stmt.kind = "VariableStmt"
    /\ "expr" \in DOMAIN stmt
    /\ stmt.expr.kind = "CallExpr"

\* a stage whose response template extracts the call's result
ResultStage(st, api, i, dataSource, service, stmt) ==
    LET call == findServiceCallExpr(stmt.expr)
        res == getResult(stmt.expr, ReturnValName(service))
        called == [st EXCEPT !.template = CallAll(@, res.calls)]
    IN  IF call = NotFound THEN Throw(st, "")
        ELSE IF res.err
        THEN Throw(called,
                 "invalid Expression in-lined with Service Call: " \o res.kind)
        ELSE createStage(called, api, i, dataSource, call,
                 IF stmt.kind = "ReturnStmt"
                 THEN ReturnResponse(service, res.text)
                 ELSE VariableResponse(service, stmt.name, res.text))

\* the map callback without the final throw: any other statement is compiled
\* like an expression statement
ServiceStmtAcceptAll(st, api, i, stmt, service) ==
    LET bound == CallGetDataSource(st, api, service, ServiceCompute(service))
        ds == bound.dsLog[Len(bound.dsLog)]
        call == findServiceCallExpr(StmtExpr(stmt))
    IN  IF ds.threw
        THEN Throw(bound, "Reference cannot be used within an Appsync Resolver, please use an Appsync-compatible function")
        ELSE IF stmt.kind = "ReturnStmt" \/ IsVariableCall(stmt)
        THEN ResultStage(bound, api, i, ds.result, service, stmt)
        ELSE IF call = NotFound THEN Throw(bound, "")
        ELSE createStage([bound EXCEPT !.template = VtlCall(@, call)],
                         api, i, ds.result, call, "{}")

\* the body of the map callback for a statement that invokes a service
ServiceStmt(st, api, i, stmt, service) ==
    LET bound == CallGetDataSource(st, api, service, ServiceCompute(service))
        ds == bound.dsLog[Len(bound.dsLog)]
    IN  IF ds.threw
        THEN Throw(bound, "Reference cannot be used within an Appsync Resolver, please use an Appsync-compatible function")
        ELSE IF stmt.kind = "ExprStmt"
        THEN LET call == findServiceCallExpr(stmt.expr)
             IN  IF call = NotFound THEN Throw(bound, "")
                 ELSE createStage([bound EXCEPT !.template = VtlCall(@, call)],
                                  api, i, ds.result, call, "{}")
        ELSE IF stmt.kind = "ReturnStmt" \/ IsVariableCall(stmt)
        THEN ResultStage(bound, api, i, ds.result, service, stmt)
        ELSE Throw(bound, "only a 'VariableDecl', 'Call' or 'Return' expression may call a service")

\* the body of the map callback for a statement that invokes no service
PlainStmt(st, stmt, isLastExpr) ==
    IF isLastExpr
    THEN IF stmt.kind = "ReturnStmt"
         THEN [st EXCEPT !.template = VtlReturn(@, stmt.expr)]
         ELSE IF stmt.kind = "IfStmt"
         THEN [st EXCEPT !.template = VtlEval(@, stmt)]
         ELSE [st EXCEPT !.template = VtlReturnNull(@)]
    ELSE [st EXCEPT !.template = VtlEval(@, stmt)]

\* the map callback testing isLastExpr before the service
SynthesizeStmtLastFirst(st, api, body, i) ==
    LET stmt == body[i]
        isLastExpr == (i = Len(body))
        service == findService(stmt)
    IN  IF isLastExpr \/ service = Undefined
        THEN PlainStmt(st, stmt, isLastExpr)
        ELSE ServiceStmt(st, api, i, stmt, service)

\* the map callback of synthesizeFunctions, applied to statement i
SynthesizeStmt(st, api, body, i) ==
    LET stmt == body[i]
        isLastExpr == (i = Len(body))
        service == findService(stmt)
    IN  IF service # Undefined
        THEN ServiceStmt(st, api, i, stmt, service)
        ELSE PlainStmt(st, stmt, isLastExpr)

RECURSIVE SynthesizeFrom(_, _, _, _)
\* statements i.. of the body in order; a thrown error ends the compilation
SynthesizeFrom(st, api, body, i) ==
    IF st.thrown \/ i > Len(body) THEN st
    ELSE SynthesizeFrom(SynthesizeStmt(st, api, body, i), api, body, i + 1)

\* synthesizeFunctions(decl): [functions, template.toVTL()]
synthesizeFunctions(st, api, body) == SynthesizeFrom(st, api, body, 1)

\* countResolvers(decl)
countResolvers(body) ==
    Cardinality({i \in 1..Len(body) : findService(body[i]) # Undefined})

\* what addResolver threw, with the pipeline functions created before it
Failed(st, api) ==
    [status |-> "error", api |-> api, message |-> st.message,
     functions |-> st.functions]

\* the SynthesizedAppsyncResolver addResolver returns
Synthesized(st, api, templates, pipelineConfig, request, response) ==
    [status |-> "ok", api |-> api, templates |-> templates,
     pipelineConfig |-> pipelineConfig, functions |-> st.functions,
     requestMappingTemplate |-> request,
     responseMappingTemplate |-> response]

\* the else branch: a pipeline resolver
PipelineResolver(api, body) ==
    LET syn == synthesizeFunctions(
                   CompileState(TRUE, <<PipelineRequestTemplate>>), api, body)
        responseMappingTemplate == toVTL(syn.template)
    IN  IF syn.thrown THEN <<syn, Failed(syn, api)>>
        ELSE <<syn,
               Synthesized(syn, api,
                   Append(syn.templates, responseMappingTemplate),
                   syn.functions,
                   PipelineRequestTemplate, responseMappingTemplate)>>

\* the mock branch taken for the pipeline branch
MockResolverAsPipeline(api, body) == PipelineResolver(api, body)

\* the resolverCount === 0 branch: a mock integration
MockResolver(api, body) ==
    LET syn == synthesizeFunctions(CompileState(FALSE, << >>), api, body)
        responseMappingTemplate == toVTL(syn.template)
        bound == CallGetDataSource(syn, api, "null", "returns")
    IN  IF syn.thrown THEN <<syn, Failed(syn, api)>>
        ELSE IF Len(syn.functions) # 0
        THEN <<syn, Failed(Throw(syn, "expected 0 functions in pipelineConfig, but found "
                                      \o ToString(Len(syn.functions))), api)>>
        ELSE <<bound,
               Synthesized(bound, api,
                   Append(Append(syn.templates, MockRequestTemplate),
                          responseMappingTemplate),
                   << >>,
                   MockRequestTemplate, responseMappingTemplate)>>

addResolver(api) ==
    /\ resolver.status = "none"
    /\ LET out == IF countResolvers(decl) = 0
                  THEN MockResolver(api, decl)
                  ELSE PipelineResolver(api, decl)
       IN  /\ resolver' = out[2]
           /\ names' = out[1].names
           /\ nameLog' = out[1].nameLog
           /\ dataSources' = out[1].dataSources
           /\ dsLog' = out[1].dsLog
           /\ created' = out[1].created
    /\ UNCHANGED <<decl, astVars, flattenVars, sfnVars>>

InitResolver ==
    /\ names = << >>
    /\ nameLog = << >>
    /\ dataSources = << >>
    /\ dsLog = << >>
    /\ created = 0
    /\ decl \in Bodies
    /\ resolver = NoResolver
    /\ NoSfn
    /\ NoFlatten
    /\ NoAst

NextResolver == \E api \in Apis : addResolver(api)

SpecResolver == InitResolver /\ [][NextResolver]_vars

\* the statements of the body that invoke a service
ServiceStmts == {i \in 1..Len(decl) : findService(decl[i]) # Undefined}

\* the k-th smallest element of a set of statement indexes
RECURSIVE Nth(_, _)
Nth(S, k) ==
    LET m == CHOOSE x \in S : \A y \in S : x <= y
    IN  IF k = 1 THEN m ELSE Nth(S \ {m}, k - 1)

\* C4: a body in which no statement invokes a service compiles to exactly one
\* request/response template pair, no pipeline function, and the fixed
\* request template {"version": "2018-05-29", "payload": null}
C4_MockResolver ==
    (resolver.status # "none" /\ ServiceStmts = {})
        => /\ resolver.status = "ok"
           /\ Len(resolver.templates) = 2
           /\ resolver.functions = << >>
           /\ resolver.pipelineConfig = << >>
           /\ resolver.templates[1] =
                  Text("{\n  \"version\": \"2018-05-29\",\n  \"payload\": null\n}")
           /\ resolver.requestMappingTemplate = resolver.templates[1]

\* a body of two statements without service call was compiled
C4_Witness ==
    /\ resolver.status = "ok"
    /\ Len(decl) = 2
    /\ ServiceStmts = {}
    /\ Len(resolver.templates) = 2

\* C5: when compilation succeeds there is one pipeline function per statement
\* that invokes a service, and the error 'expected 0 functions in
\* pipelineConfig' is never thrown
C5_StagePerServiceStmt ==
    /\ resolver.status = "ok"
           => /\ Len(resolver.pipelineConfig) = Cardinality(ServiceStmts)
              /\ {resolver.pipelineConfig[k].stmt :
                     k \in 1..Len(resolver.pipelineConfig)} = ServiceStmts
    /\ resolver.status = "error"
           => \A n \in 0..Len(decl) :
                  resolver.message #
                      "expected 0 functions in pipelineConfig, but found "
                          \o ToString(n)

\* a body whose only statement is a service call compiled to one stage
C5_Witness ==
    /\ resolver.status = "ok"
    /\ decl = <<ReturnStmt(Call(Prop(Ref("table1"), "query")))>>
    /\ Len(resolver.pipelineConfig) = 1

\* C6: with N >= 1 service statements the templates are, in order, the
\* pipeline's request template, each stage's request template followed by its
\* response template in source statement order, and the overall response
\* template: 2N+2 entries
C6_TemplatesInExecutionOrder ==
    (resolver.status = "ok" /\ ServiceStmts # {})
        => LET N == Cardinality(ServiceStmts)
               t == resolver.templates
           IN  /\ Len(t) = 2 * N + 2
               /\ Len(resolver.pipelineConfig) = N
               /\ t[1] = Text("{}")
               /\ t[1] = resolver.requestMappingTemplate
               /\ t[2 * N + 2] = resolver.responseMappingTemplate
               /\ t[2 * N + 2].kind = "vtl"
               /\ \A k \in 1..N :
                      /\ resolver.pipelineConfig[k].stmt = Nth(ServiceStmts, k)
                      /\ t[2 * k] = resolver.pipelineConfig[k].requestMappingTemplate
                      /\ t[2 * k].kind = "vtl"
                      /\ t[2 * k + 1] = resolver.pipelineConfig[k].responseMappingTemplate
                      /\ t[2 * k + 1].kind = "text"

\* a body with two service statements compiled to six templates
C6_Witness ==
    /\ resolver.status = "ok"
    /\ Cardinality(ServiceStmts) = 2
    /\ Len(resolver.templates) = 6
    /\ resolver.pipelineConfig[1].stmt < resolver.pipelineConfig[2].stmt

\* an expression that contains a call
RECURSIVE HasCall(_)
HasCall(expr) ==
    IF expr.kind = "CallExpr" THEN TRUE
    ELSE IF expr.kind \in {"PropAccessExpr", "ElementAccessExpr"}
         THEN HasCall(expr.expr)
    ELSE FALSE

\* statements that invoke a service and are neither an expression statement,
\* nor a variable declaration with a call, nor a return statement
UnsupportedCallPositions ==
    {i \in ServiceStmts :
        /\ decl[i].kind \notin {"ExprStmt", "ReturnStmt"}
        /\ ~(decl[i].kind = "VariableStmt" /\ HasCall(StmtExpr(decl[i])))}

\* C7: a statement that invokes a service and is not an expression statement,
\* a variable declaration with a call or a return statement makes the
\* compilation fail, and no stage is created for that statement
C7_UnsupportedCallPositionRejected ==
    (resolver.status # "none" /\ UnsupportedCallPositions # {})
        => /\ resolver.status = "error"
           /\ \A k \in 1..Len(resolver.functions) :
                  resolver.functions[k].stmt \notin UnsupportedCallPositions

\* a stage was created for the first statement before the if statement that
\* calls a table was rejected
C7_Witness ==
    /\ resolver.status = "error"
    /\ Len(decl) = 2
    /\ decl[2] = IfStmt(Call(Ref("table1")))
    /\ resolver.message =
           "only a 'VariableDecl', 'Call' or 'Return' expression may call a service"
    /\ Len(resolver.functions) = 1

\* C8: const items = table.query().items compiles to one stage whose response
\* template assigns $context.stash.items = $context.result.items
C8_PropertyChainBound ==
    (resolver.status # "none"
        /\ decl = <<VariableStmt("items",
                        Prop(Call(Prop(Ref("table1"), "query")), "items"))>>)
        => /\ resolver.status = "ok"
           /\ Len(resolver.pipelineConfig) = 1
           /\ resolver.pipelineConfig[1].responseMappingTemplate =
                  Text("#set( $context.stash.items = $context.result.items )\n{}")

----------------------------------------------------------------------------
(* BaseNode: parent and children *)

\* undefined, where a node is expected
Nil == 0

\* a node as its constructor leaves it: no parent, no children, and every
\* reference of its kind undefined
BaseNode(kind, nodeKind) ==
    [kind |-> kind, nodeKind |-> nodeKind, parent |-> Nil, children |-> << >>,
     prev |-> Nil, next |-> Nil, name |-> "",
     expr |-> Nil, condition |-> Nil, block |-> Nil, statements |-> << >>,
     tryBlock |-> Nil, catchClause |-> Nil, finallyBlock |-> Nil,
     variableDecl |-> Nil, then |-> Nil, _else |-> Nil,
     parameters |-> << >>, body |-> Nil]

\* setParent that puts the node in front of the parent's children
SetParentFirst(ns, n, p) ==
    IF p = Nil THEN [ns EXCEPT ![n].parent = Nil]
    ELSE [[ns EXCEPT ![n].parent = p] EXCEPT ![p].children = <<n>> \o @]

\* the nodes after n.setParent(p)
SetParent(ns, n, p) ==
    IF p = Nil THEN [ns EXCEPT ![n].parent = Nil]
    ELSE [[ns EXCEPT ![n].parent = p] EXCEPT ![p].children = Append(@, n)]

MaxSetParent == 3

\* The nodes setParent is called on directly
FreeNodes ==
    <<BaseNode("BlockStmt", "Stmt"), BaseNode("ExprStmt", "Stmt"),
      BaseNode("Identifier", "Expr")>>

setParent(n, p) ==
    /\ Len(setLog) < MaxSetParent
    /\ nodes' = SetParent(nodes, n, p)
    /\ setLog' = Append(setLog,
           [node |-> n, parent |-> p,
            changed |-> {q \in 1..Len(nodes) :
                            nodes'[q].children # nodes[q].children}])
    /\ UNCHANGED <<roots, answer, limit, memoVars, resolverVars, flattenVars,
                 sfnVars>>

InitParent ==
    /\ names = << >>
    /\ nameLog = << >>
    /\ dataSources = << >>
    /\ dsLog = << >>
    /\ created = 0
    /\ decl = << >>
    /\ resolver = NoResolver
    /\ NoSfn
    /\ NoFlatten
    /\ nodes = FreeNodes
    /\ roots = <<1, 2, 3>>
    /\ setLog = << >>
    /\ answer = NoAnswer
    /\ limit = 0

NextParent ==
    \E n \in 1..Len(nodes), p \in 0..Len(nodes) : setParent(n, p)

SpecParent == InitParent /\ [][NextParent]_vars

\* the calls that attached node n to a parent
Attachments(n) ==
    {i \in 1..Len(setLog) : setLog[i].node = n /\ setLog[i].parent # Nil}

\* the positions of node n in a children list
Positions(list, n) == {k \in 1..Len(list) : list[k] = n}

RECURSIVE AttachedTo(_, _)
\* the nodes attached to p by the first i calls, in the order of the calls
AttachedTo(p, i) ==
    IF i = 0 THEN << >>
    ELSE IF setLog[i].parent = p
         THEN Append(AttachedTo(p, i - 1), setLog[i].node)
    ELSE AttachedTo(p, i - 1)

\* C9: when every node was attached at most once, a node with a defined
\* parent is exactly once in that parent's children and in no other children
\* list; every children list is in attachment order; and setParent(undefined)
\* changes no children list
C9_ChildrenMatchParents ==
    /\ (\A n \in 1..Len(nodes) : Cardinality(Attachments(n)) <= 1)
           => \A n \in 1..Len(nodes) :
                  nodes[n].parent # Nil
                      => \A q \in 1..Len(nodes) :
                             Cardinality(Positions(nodes[q].children, n)) =
                                 IF q = nodes[n].parent THEN 1 ELSE 0
    /\ \A p \in 1..Len(nodes) :
           nodes[p].children = AttachedTo(p, Len(setLog))
    /\ \A i \in 1..Len(setLog) :
           setLog[i].parent = Nil => setLog[i].changed = {}

\* two nodes were attached to the same parent, each once, and one of them was
\* then given an undefined parent
C9_Witness ==
    /\ Len(setLog) = 3
    /\ setLog[1].parent = 1 /\ setLog[2].parent = 1
    /\ setLog[1].node = 3 /\ setLog[2].node = 2
    /\ setLog[3].node = 3 /\ setLog[3].parent = Nil
    /\ nodes[1].children = <<3, 2>>
    /\ nodes[2].parent = 1 /\ nodes[3].parent = Nil

----------------------------------------------------------------------------
(* Statements and expressions: the constructors *)

MaxNodes == 6

\* the identity the next constructed node gets
NewId(ns) == Len(ns) + 1

\* the last k roots, in construction order
TopRoots(k) == SubSeq(roots, Len(roots) - k + 1, Len(roots))

\* the roots without the last k
PopRoots(k) == SubSeq(roots, 1, Len(roots) - k)

\* the root k places below the top (the top is 0)
TopRoot(k) == roots[Len(roots) - k]

\* a constructor ran: the queries start afresh
Constructed(ns, rs) ==
    /\ nodes' = ns
    /\ roots' = rs
    /\ answer' = NoAnswer
    /\ UNCHANGED <<setLog, limit, memoVars, resolverVars, flattenVars,
                 sfnVars>>

\* new Identifier(name)
NewIdentifier ==
    /\ Len(nodes) < limit
    /\ Constructed(Append(nodes, BaseNode("Identifier", "Expr")),
                   Append(roots, NewId(nodes)))

\* new BreakStmt()
NewBreakStmt ==
    /\ Len(nodes) < limit
    /\ Constructed(Append(nodes, BaseNode("BreakStmt", "Stmt")),
                   Append(roots, NewId(nodes)))

\* new VariableStmt(name), without initializer
NewVariableDecl(name) ==
    /\ Len(nodes) < limit
    /\ Constructed(
           Append(nodes, [BaseNode("VariableStmt", "Stmt") EXCEPT !.name = name]),
           Append(roots, NewId(nodes)))

\* new VariableStmt(name, expr): the initializer is the last root
NewVariableStmt(name) ==
    /\ Len(nodes) < limit
    /\ Len(roots) >= 1
    /\ nodes[TopRoot(0)].nodeKind = "Expr"
    /\ LET id == NewId(nodes)
           made == Append(nodes,
                       [BaseNode("VariableStmt", "Stmt") EXCEPT
                           !.name = name, !.expr = TopRoot(0)])
       IN  Constructed(SetParent(made, TopRoot(0), id),
                       Append(PopRoots(1), id))

\* new ExprStmt(expr)
NewExprStmt ==
    /\ Len(nodes) < limit
    /\ Len(roots) >= 1
    /\ nodes[TopRoot(0)].nodeKind = "Expr"
    /\ LET id == NewId(nodes)
           made == Append(nodes,
                       [BaseNode("ExprStmt", "Stmt") EXCEPT !.expr = TopRoot(0)])
       IN  Constructed(SetParent(made, TopRoot(0), id),
                       Append(PopRoots(1), id))

\* the kinds of statement a block holds
BlockMemberKinds ==
    {"BreakStmt", "VariableStmt", "ExprStmt", "BlockStmt", "WhileStmt",
     "DoStmt", "TryStmt", "ReturnStmt", "ThrowStmt", "IfStmt", "ForInStmt",
     "ForOfStmt"}

RECURSIVE LinkStatements(_, _, _, _)
\* the forEach of the BlockStmt constructor from statement i on: setParent,
\* prev and next
LinkStatements(ns, block, statements, i) ==
    IF i > Len(statements) THEN ns
    ELSE LET stmt == statements[i]
             attached == SetParent(ns, stmt, block)
             linked == [attached EXCEPT
                 ![stmt].prev = IF i > 1 THEN statements[i - 1] ELSE Nil,
                 ![stmt].next = IF i + 1 <= Len(statements)
                                THEN statements[i + 1] ELSE Nil]
         IN  LinkStatements(linked, block, statements, i + 1)

\* new BlockStmt(statements): the statements are the last k roots
NewBlockStmt(k) ==
    /\ Len(nodes) < limit
    /\ Len(roots) >= k
    /\ \A j \in 1..k : nodes[TopRoots(k)[j]].kind \in BlockMemberKinds
    /\ LET id == NewId(nodes)
           made == Append(nodes,
                       [BaseNode("BlockStmt", "Stmt") EXCEPT
                           !.statements = TopRoots(k)])
       IN  Constructed(LinkStatements(made, id, TopRoots(k), 1),
                       Append(PopRoots(k), id))

\* new WhileStmt(condition, block): the last two roots
NewWhileStmt ==
    /\ Len(nodes) < limit
    /\ Len(roots) >= 2
    /\ nodes[TopRoot(1)].nodeKind = "Expr"
    /\ nodes[TopRoot(0)].kind = "BlockStmt"
    /\ LET id == NewId(nodes)
           made == Append(nodes,
                       [BaseNode("WhileStmt", "Stmt") EXCEPT
                           !.condition = TopRoot(1), !.block = TopRoot(0)])
       IN  Constructed(
               SetParent(SetParent(made, TopRoot(1), id), TopRoot(0), id),
               Append(PopRoots(2), id))

\* new DoStmt(block, condition): the last two roots
NewDoStmt ==
    /\ Len(nodes) < limit
    /\ Len(roots) >= 2
    /\ nodes[TopRoot(1)].kind = "BlockStmt"
    /\ nodes[TopRoot(0)].nodeKind = "Expr"
    /\ LET id == NewId(nodes)
           made == Append(nodes,
                       [BaseNode("DoStmt", "Stmt") EXCEPT
                           !.block = TopRoot(1), !.condition = TopRoot(0)])
       IN  Constructed(
               SetParent(SetParent(made, TopRoot(1), id), TopRoot(0), id),
               Append(PopRoots(2), id))

----------------------------------------------------------------------------
(* BaseNode: step and exit *)

\* a TypeError: a property of undefined was read
TypeError == -1

\* BlockStmt.isEmpty()
isEmpty(ns, b) == Len(ns[b].statements) = 0

\* BlockStmt.firstStmt
firstStmt(ns, b) ==
    IF Len(ns[b].statements) = 0 THEN Nil ELSE ns[b].statements[1]

\* BlockStmt.lastStmt
lastStmt(ns, b) ==
    IF Len(ns[b].statements) = 0 THEN Nil
    ELSE ns[b].statements[Len(ns[b].statements)]

\* BlockStmt.isFinallyBlock()
isFinallyBlock(ns, b) ==
    /\ ns[b].parent # Nil
    /\ ns[ns[b].parent].kind = "TryStmt"
    /\ ns[ns[b].parent].finallyBlock = b

RECURSIVE Step(_, _)
RECURSIVE Exit(_, _)

\* step with a declaration without initializer taken as executable
StepAtDeclaration(ns, n) ==
    LET self == ns[n]
    IN  IF self.kind = "TryStmt" THEN Step(ns, self.tryBlock)
        ELSE IF self.kind = "BlockStmt"
        THEN IF isEmpty(ns, n) THEN Exit(ns, n)
             ELSE Step(ns, firstStmt(ns, n))
        ELSE IF self.kind = "CatchClause"
        THEN IF self.variableDecl # Nil THEN Step(ns, self.variableDecl)
             ELSE Step(ns, self.block)
        ELSE IF self.kind = "DoStmt" THEN Step(ns, self.block)
        ELSE IF self.nodeKind = "Stmt" THEN n
        ELSE Exit(ns, n)

\* n.step(): the statement that will be run immediately after this node
Step(ns, n) ==
    LET self == ns[n]
    IN  IF self.kind = "TryStmt" THEN Step(ns, self.tryBlock)
        ELSE IF self.kind = "BlockStmt"
        THEN IF isEmpty(ns, n) THEN Exit(ns, n)
             ELSE Step(ns, firstStmt(ns, n))
        ELSE IF self.kind = "CatchClause"
        THEN IF self.variableDecl # Nil THEN Step(ns, self.variableDecl)
             ELSE Step(ns, self.block)
        ELSE IF self.kind = "VariableStmt" /\ self.expr = Nil
        THEN IF self.next # Nil THEN Step(ns, self.next) ELSE Exit(ns, n)
        ELSE IF self.kind = "DoStmt" THEN Step(ns, self.block)
        ELSE IF self.nodeKind = "Stmt" THEN n
        ELSE Exit(ns, n)

\* the exit of a node of a try statement that passes its finally block by
ExitTryPastFinally(ns, n, scope) == Exit(ns, scope)

\* the exit of a node whose scope is a try statement
ExitTry(ns, n, scope) ==
    IF ns[scope].tryBlock = n \/ ns[scope].catchClause = n
    THEN IF ns[scope].finallyBlock # Nil THEN Step(ns, ns[scope].finallyBlock)
         ELSE Exit(ns, scope)
    ELSE IF ns[scope].finallyBlock = n /\ ns[scope].next # Nil
    THEN Step(ns, ns[scope].next)
    ELSE Exit(ns, scope)

\* the exit of a node whose scope is a catch clause
ExitCatch(ns, scope) ==
    IF ns[scope].parent = Nil THEN TypeError
    ELSE IF ns[ns[scope].parent].finallyBlock # Nil
    THEN Step(ns, ns[ns[scope].parent].finallyBlock)
    ELSE Exit(ns, ns[scope].parent)

\* n.exit(): the statement that will be run after exiting the scope of this node
Exit(ns, n) ==
    LET node == ns[n]
        scope == node.parent
    IN  IF node.nodeKind = "Stmt" /\ node.next # Nil THEN Step(ns, node.next)
        ELSE IF scope = Nil THEN Nil
        ELSE IF ns[scope].kind = "WhileStmt" THEN scope
        ELSE IF ns[scope].kind = "TryStmt" THEN ExitTry(ns, n, scope)
        ELSE IF ns[scope].kind = "CatchClause" THEN ExitCatch(ns, scope)
        ELSE IF ns[scope].nodeKind = "Stmt" /\ ns[scope].next # Nil
        THEN Step(ns, ns[scope].next)
        ELSE IF ns[scope].nodeKind = "Expr"
        THEN IF ns[scope].parent # Nil THEN Step(ns, ns[scope].parent) ELSE Nil
        ELSE Exit(ns, scope)

\* the tree is complete: one root holds every node
Complete == Len(roots) = 1

\* node.step() is asked of a node of the complete tree
step(n) ==
    /\ Complete
    /\ answer' = [op |-> "step", node |-> n, result |-> Step(nodes, n)]
    /\ UNCHANGED <<nodes, roots, setLog, limit, memoVars, resolverVars, flattenVars,
                 sfnVars>>

\* node.exit() is asked of a node of the complete tree
exit(n) ==
    /\ Complete
    /\ answer' = [op |-> "exit", node |-> n, result |-> Exit(nodes, n)]
    /\ UNCHANGED <<nodes, roots, setLog, limit, memoVars, resolverVars, flattenVars,
                 sfnVars>>

\* The names variables are declared with
VariableNames == {"a"}

InitStep ==
    /\ names = << >>
    /\ nameLog = << >>
    /\ dataSources = << >>
    /\ dsLog = << >>
    /\ created = 0
    /\ decl = << >>
    /\ resolver = NoResolver
    /\ NoSfn
    /\ NoFlatten
    /\ EmptyAst(MaxNodes)

NextStep ==
    \/ NewIdentifier
    \/ NewBreakStmt
    \/ \E name \in VariableNames : NewVariableDecl(name)
    \/ \E name \in VariableNames : NewVariableStmt(name)
    \/ NewExprStmt
    \/ \E k \in 0..Len(roots) : NewBlockStmt(k)
    \/ NewWhileStmt
    \/ NewDoStmt
    \/ \E n \in 1..Len(nodes) : step(n)
    \/ \E n \in 1..Len(nodes) : exit(n)

SpecStep == InitStep /\ [][NextStep]_vars

\* a variable declaration without initializer
IsDeclaration(n) == nodes[n].kind = "VariableStmt" /\ nodes[n].expr = Nil

\* the blocks whose first statement is a declaration without initializer
DeclarationLedBlocks ==
    {b \in 1..Len(nodes) :
        /\ nodes[b].kind = "BlockStmt"
        /\ ~isEmpty(nodes, b)
        /\ IsDeclaration(firstStmt(nodes, b))}

\* the positions in block b of the statements that are not declarations
\* without initializer
LaterStatements(b) ==
    {i \in 1..Len(nodes[b].statements) : ~IsDeclaration(nodes[b].statements[i])}

\* the first statement of block b that is not a declaration without
\* initializer
FirstLater(b) ==
    nodes[b].statements[CHOOSE i \in LaterStatements(b) :
                            \A j \in LaterStatements(b) : i <= j]

\* the kinds of statement that step() resolves to the statement itself
SelfSteppingKinds == {"BreakStmt", "ExprStmt", "WhileStmt", "VariableStmt"}

\* C10: step() of a declaration without initializer is the next statement's
\* step(), or the declaration's exit() when it is last; step() of an empty
\* block is the block's exit(); so step() of a block that starts with
\* declarations without initializer is the step() of the first later statement
C10_StepSkipsForward ==
    /\ \A n \in 1..Len(nodes) :
           IsDeclaration(n)
               => Step(nodes, n) =
                      IF nodes[n].next # Nil THEN Step(nodes, nodes[n].next)
                      ELSE Exit(nodes, n)
    /\ \A b \in 1..Len(nodes) :
           (nodes[b].kind = "BlockStmt" /\ isEmpty(nodes, b))
               => Step(nodes, b) = Exit(nodes, b)
    /\ \A b \in DeclarationLedBlocks :
           IF LaterStatements(b) = {}
           THEN Step(nodes, b) = Exit(nodes, lastStmt(nodes, b))
           ELSE /\ Step(nodes, b) = Step(nodes, FirstLater(b))
                /\ Step(nodes, b) # firstStmt(nodes, b)
                /\ nodes[FirstLater(b)].kind \in SelfSteppingKinds
                       => Step(nodes, b) = FirstLater(b)
    /\ answer.op = "step" => answer.result = Step(nodes, answer.node)

\* step() was asked of the body of a do statement, a block of two declarations
\* without initializer and a break statement, and returned the break statement
C10_Witness ==
    /\ answer.op = "step"
    /\ answer.node \in DeclarationLedBlocks
    /\ Len(nodes[answer.node].statements) = 3
    /\ IsDeclaration(nodes[answer.node].statements[2])
    /\ nodes[nodes[answer.node].statements[3]].kind = "BreakStmt"
    /\ answer.result = nodes[answer.node].statements[3]
    /\ nodes[answer.node].parent # Nil
    /\ nodes[nodes[answer.node].parent].kind = "DoStmt"

----------------------------------------------------------------------------
(* try, catch and finally: the constructors *)

\* new CatchClause(variableDecl, block): the block is the last root, and the
\* declaration, when there is one, the root below it
NewCatchClause(withDecl) ==
    LET k == IF withDecl THEN 2 ELSE 1
    IN  /\ Len(nodes) < limit
        /\ Len(roots) >= k
        /\ nodes[TopRoot(0)].kind = "BlockStmt"
        /\ withDecl => /\ nodes[TopRoot(1)].kind = "VariableStmt"
                       /\ nodes[TopRoot(1)].expr = Nil
        /\ LET id == NewId(nodes)
               variableDecl == IF withDecl THEN TopRoot(1) ELSE Nil
               made == Append(nodes,
                           [BaseNode("CatchClause", "Stmt") EXCEPT
                               !.variableDecl = variableDecl,
                               !.block = TopRoot(0)])
               declared == IF withDecl THEN SetParent(made, variableDecl, id)
                           ELSE made
           IN  Constructed(SetParent(declared, TopRoot(0), id),
                           Append(PopRoots(k), id))

\* new TryStmt(tryBlock, catchClause, finallyBlock): the last roots, in this
\* order; a try statement has a catch clause, a finally block, or both
NewTryStmt(hasCatch, hasFinally) ==
    LET k == 1 + (IF hasCatch THEN 1 ELSE 0) + (IF hasFinally THEN 1 ELSE 0)
    IN  /\ Len(nodes) < limit
        /\ hasCatch \/ hasFinally
        /\ Len(roots) >= k
        /\ nodes[TopRoot(k - 1)].kind = "BlockStmt"
        /\ hasCatch => nodes[TopRoot(k - 2)].kind = "CatchClause"
        /\ hasFinally => nodes[TopRoot(0)].kind = "BlockStmt"
        /\ LET id == NewId(nodes)
               tryBlock == TopRoot(k - 1)
               catchClause == IF hasCatch THEN TopRoot(k - 2) ELSE Nil
               finallyBlock == IF hasFinally THEN TopRoot(0) ELSE Nil
               made == Append(nodes,
                           [BaseNode("TryStmt", "Stmt") EXCEPT
                               !.tryBlock = tryBlock,
                               !.catchClause = catchClause,
                               !.finallyBlock = finallyBlock])
               tried == SetParent(made, tryBlock, id)
               caught == IF hasCatch THEN SetParent(tried, catchClause, id)
                         ELSE tried
           IN  Constructed(
                   IF hasFinally THEN SetParent(caught, finallyBlock, id)
                   ELSE caught,
                   Append(PopRoots(k), id))

----------------------------------------------------------------------------
(* BaseNode: findParent, findCatchClause, contains and throw *)

RECURSIVE findParentCatchClause(_, _)
\* n.findParent(p => p.kind === "CatchClause")
findParentCatchClause(ns, n) ==
    IF ns[n].parent = Nil THEN Nil
    ELSE IF ns[ns[n].parent].kind = "CatchClause" THEN ns[n].parent
    ELSE findParentCatchClause(ns, ns[n].parent)

RECURSIVE findCatchClause(_, _)
\* n.findCatchClause(): the catch clause this node should throw to; reading
\* the parent of a catch clause that has none is a TypeError
findCatchClause(ns, n) ==
    IF n = Nil THEN TypeError
    ELSE IF ns[n].kind = "BlockStmt" /\ isFinallyBlock(ns, n)
    THEN findCatchClause(ns, ns[n].parent)
    ELSE LET scope == ns[n].parent
         IN  IF scope = Nil THEN Nil
             ELSE IF ns[scope].kind = "TryStmt" THEN ns[scope].catchClause
             ELSE IF ns[scope].kind = "CatchClause"
             THEN findCatchClause(ns, ns[scope].parent)
             ELSE IF ns[scope].kind = "BlockStmt" /\ isFinallyBlock(ns, scope)
             THEN findCatchClause(ns, ns[scope].parent)
             ELSE findCatchClause(ns, scope)

RECURSIVE contains(_, _, _, _)
RECURSIVE containsSearch(_, _, _, _, _)

\* the loop of a.contains(node, "dfs") from child i on: a child is compared
\* and then searched before the next child is looked at
containsDfs(ns, a, node, i) ==
    containsSearch(ns, a, node, "dfs", i)

\* from child i of a on: is a child the node (when compare is asked for), or
\* does a child contain it
containsSearch(ns, a, node, alg, i) ==
    IF i > Len(ns[a].children) THEN FALSE
    ELSE IF alg = "dfs" /\ ns[a].children[i] = node THEN TRUE
    ELSE IF contains(ns, ns[a].children[i], node, alg) THEN TRUE
    ELSE containsSearch(ns, a, node, alg, i + 1)

\* contains that looks at the children only
containsChild(ns, a, node, alg) ==
    \E j \in 1..Len(ns[a].children) : ns[a].children[j] = node

\* a.contains(node, alg)
contains(ns, a, node, alg) ==
    IF alg = "dfs" THEN containsDfs(ns, a, node, 1)
    ELSE \/ \E j \in 1..Len(ns[a].children) : ns[a].children[j] = node
         \/ containsSearch(ns, a, node, "bfs", 1)

\* n.throw(): the statement that will be run if an error was raised from n
BaseNodeThrow(ns, n) ==
    LET catchClause == findCatchClause(ns, n)
        surroundingCatch == findParentCatchClause(ns, n)
        tryOf(c) == ns[c].parent
    IN  IF catchClause = TypeError THEN TypeError
        ELSE IF catchClause # Nil
        THEN IF surroundingCatch = Nil THEN catchClause
             ELSE IF tryOf(surroundingCatch) = Nil THEN TypeError
             ELSE IF /\ ns[tryOf(surroundingCatch)].finallyBlock # Nil
                     /\ contains(ns, ns[tryOf(catchClause)].tryBlock,
                                 surroundingCatch, "dfs")
             THEN ns[tryOf(surroundingCatch)].finallyBlock
             ELSE catchClause
        ELSE IF surroundingCatch = Nil THEN catchClause
        ELSE IF tryOf(surroundingCatch) = Nil THEN TypeError
        ELSE IF ns[tryOf(surroundingCatch)].finallyBlock # Nil
        THEN ns[tryOf(surroundingCatch)].finallyBlock
        ELSE catchClause

\* node.throw() is asked of a node of the complete tree
throw(n) ==
    /\ Complete
    /\ answer' = [op |-> "throw", node |-> n, result |-> BaseNodeThrow(nodes, n)]
    /\ UNCHANGED <<nodes, roots, setLog, limit, memoVars, resolverVars, flattenVars,
                 sfnVars>>

MaxTryNodes == 7

InitTry ==
    /\ names = << >>
    /\ nameLog = << >>
    /\ dataSources = << >>
    /\ dsLog = << >>
    /\ created = 0
    /\ decl = << >>
    /\ resolver = NoResolver
    /\ NoSfn
    /\ NoFlatten
    /\ EmptyAst(MaxTryNodes)

NextTry ==
    \/ NewBreakStmt
    \/ \E k \in 0..Len(roots) : NewBlockStmt(k)
    \/ NewCatchClause(FALSE)
    \/ \E hasCatch, hasFinally \in BOOLEAN : NewTryStmt(hasCatch, hasFinally)
    \/ \E n \in 1..Len(nodes) : exit(n)

SpecTry == InitTry /\ [][NextTry]_vars

\* the try statements constructed so far
TryStmts == {t \in 1..Len(nodes) : nodes[t].kind = "TryStmt"}

\* where normal completion of the try block or the catch clause of t goes
AfterTryOrCatch(t) ==
    IF nodes[t].finallyBlock # Nil THEN Step(nodes, nodes[t].finallyBlock)
    ELSE Exit(nodes, t)

\* where normal completion of the finally block of t goes
AfterFinally(t) ==
    IF nodes[t].next # Nil THEN Step(nodes, nodes[t].next)
    ELSE Exit(nodes, t)

\* the block b and, when it has one, its last statement
BlockAndLast(b) ==
    {b} \cup (IF isEmpty(nodes, b) THEN {} ELSE {lastStmt(nodes, b)})

\* C11: exit() of a try block, of a catch clause, of the block of a catch
\* clause and of the last statement of either block is the finally block's
\* step() when the try statement has a finally block and the try statement's
\* exit() otherwise; exit() of the finally block is the step() of the
\* statement after the try statement, or the try statement's exit() when none
\* follows
C11_ExitThreadsFinally ==
    /\ \A t \in TryStmts :
           /\ \A n \in BlockAndLast(nodes[t].tryBlock) :
                  Exit(nodes, n) = AfterTryOrCatch(t)
           /\ nodes[t].catchClause # Nil
                  => /\ Exit(nodes, nodes[t].catchClause) = AfterTryOrCatch(t)
                     /\ \A n \in BlockAndLast(nodes[nodes[t].catchClause].block) :
                            Exit(nodes, n) = AfterTryOrCatch(t)
           /\ nodes[t].finallyBlock # Nil
                  => Exit(nodes, nodes[t].finallyBlock) = AfterFinally(t)
    /\ answer.op = "exit" => answer.result = Exit(nodes, answer.node)

\* exit() was asked of the break statement that ends the catch block of
\* try { } catch { break } finally { break }, and returned the break
\* statement of the finally block
C11_Witness ==
    /\ answer.op = "exit"
    /\ nodes[answer.node].kind = "BreakStmt"
    /\ \E t \in TryStmts :
           /\ nodes[t].catchClause # Nil
           /\ nodes[t].finallyBlock # Nil
           /\ lastStmt(nodes, nodes[nodes[t].catchClause].block) = answer.node
           /\ ~isEmpty(nodes, nodes[t].finallyBlock)
           /\ answer.result = firstStmt(nodes, nodes[t].finallyBlock)
           /\ nodes[answer.result].kind = "BreakStmt"

MaxThrowNodes == 9

InitThrow ==
    /\ names = << >>
    /\ nameLog = << >>
    /\ dataSources = << >>
    /\ dsLog = << >>
    /\ created = 0
    /\ decl = << >>
    /\ resolver = NoResolver
    /\ NoSfn
    /\ NoFlatten
    /\ EmptyAst(MaxThrowNodes)

NextThrow ==
    \/ \E k \in 0..Len(roots) : NewBlockStmt(k)
    \/ NewCatchClause(FALSE)
    \/ \E hasCatch, hasFinally \in BOOLEAN : NewTryStmt(hasCatch, hasFinally)
    \/ \E n \in 1..Len(nodes) : throw(n)

SpecThrow == InitThrow /\ [][NextThrow]_vars

RECURSIVE AncestorsOf(_)
\* the nodes n is inside of: its parent, the parent's parent, and so on
AncestorsOf(n) ==
    IF nodes[n].parent = Nil THEN {}
    ELSE {nodes[n].parent} \cup AncestorsOf(nodes[n].parent)

\* every catch clause is the catch clause of a try statement
Linked == Complete /\ nodes[roots[1]].kind # "CatchClause"

\* n is the try block of try statement t, or inside it
InTryBlock(n, t) ==
    nodes[t].tryBlock = n \/ nodes[t].tryBlock \in AncestorsOf(n)

\* the catch clauses n is inside of whose try statement has a finally block,
\* n not being in the try block of a try statement nested within the clause
InterceptedCatches(n) ==
    {c \in AncestorsOf(n) :
        /\ nodes[c].kind = "CatchClause"
        /\ nodes[nodes[c].parent].finallyBlock # Nil
        /\ ~\E t \in TryStmts \cap AncestorsOf(n) :
               c \in AncestorsOf(t) /\ InTryBlock(n, t)}

\* the innermost of a set of nodes that lie on one path to the root
Innermost(S) == CHOOSE c \in S : \A d \in S \ {c} : d \in AncestorsOf(c)

\* C12: for a node inside a catch clause, and not in a try block nested
\* within it, whose try statement has a finally block, throw() returns that
\* finally block (of the innermost such clause), whether or not an outer
\* catch clause exists
C12_FinallyIntercepts ==
    /\ Linked
           => \A n \in 1..Len(nodes) :
                  InterceptedCatches(n) # {}
                      => BaseNodeThrow(nodes, n) =
                             nodes[nodes[Innermost(InterceptedCatches(n))].parent]
                                 .finallyBlock
    /\ answer.op = "throw" => answer.result = BaseNodeThrow(nodes, answer.node)

\* the try statements whose try block is n or contains n
TryingOf(n) == {t \in TryStmts : InTryBlock(n, t)}

\* the catch clause of the innermost try statement whose try block holds n,
\* and none when no try block holds n
NominalHandler(n) ==
    IF TryingOf(n) = {} THEN Nil
    ELSE nodes[Innermost(TryingOf(n))].catchClause

\* the try statements n is in the finally block of
FinalizingOf(n) ==
    {t \in TryStmts : /\ nodes[t].finallyBlock # Nil
                      /\ nodes[t].finallyBlock \in AncestorsOf(n)}

\* C13: for a node that is inside no catch clause, throw() returns the catch
\* clause of the innermost try statement whose try block holds the node, and
\* none when there is no such try statement; and for a node inside a finally
\* block, throw() never returns the catch clause of that block's try statement
C13_NominalHandler ==
    /\ Linked
           => \A n \in 1..Len(nodes) :
                  /\ (\A c \in AncestorsOf(n) : nodes[c].kind # "CatchClause")
                         => BaseNodeThrow(nodes, n) = NominalHandler(n)
                  /\ \A t \in FinalizingOf(n) :
                         nodes[t].catchClause # Nil
                             => BaseNodeThrow(nodes, n) # nodes[t].catchClause
    /\ answer.op = "throw" => answer.result = BaseNodeThrow(nodes, answer.node)

----------------------------------------------------------------------------
(* BaseNode: isTerminal *)

\* new ReturnStmt(expr)
NewReturnStmt ==
    /\ Len(nodes) < limit
    /\ Len(roots) >= 1
    /\ nodes[TopRoot(0)].nodeKind = "Expr"
    /\ LET id == NewId(nodes)
           made == Append(nodes,
                       [BaseNode("ReturnStmt", "Stmt") EXCEPT !.expr = TopRoot(0)])
       IN  Constructed(SetParent(made, TopRoot(0), id),
                       Append(PopRoots(1), id))

\* new ThrowStmt(expr)
NewThrowStmt ==
    /\ Len(nodes) < limit
    /\ Len(roots) >= 1
    /\ nodes[TopRoot(0)].nodeKind = "Expr"
    /\ LET id == NewId(nodes)
           made == Append(nodes,
                       [BaseNode("ThrowStmt", "Stmt") EXCEPT !.expr = TopRoot(0)])
       IN  Constructed(SetParent(made, TopRoot(0), id),
                       Append(PopRoots(1), id))

\* new IfStmt(when, then, _else): the last roots, in this order; the else
\* branch is a block or another if statement
NewIfStmt(hasElse) ==
    LET k == IF hasElse THEN 3 ELSE 2
    IN  /\ Len(nodes) < limit
        /\ Len(roots) >= k
        /\ nodes[TopRoot(k - 1)].nodeKind = "Expr"
        /\ nodes[TopRoot(k - 2)].kind = "BlockStmt"
        /\ hasElse => nodes[TopRoot(0)].kind \in {"BlockStmt", "IfStmt"}
        /\ LET id == NewId(nodes)
               made == Append(nodes,
                           [BaseNode("IfStmt", "Stmt") EXCEPT
                               !.condition = TopRoot(k - 1),
                               !.then = TopRoot(k - 2),
                               !._else = IF hasElse THEN TopRoot(0) ELSE Nil])
               branched == SetParent(SetParent(made, TopRoot(k - 1), id),
                                     TopRoot(k - 2), id)
           IN  Constructed(
                   IF hasElse THEN SetParent(branched, TopRoot(0), id)
                   ELSE branched,
                   Append(PopRoots(k), id))

RECURSIVE isTerminal(_, _)
RECURSIVE isTerminalRaises(_, _)

\* isTerminal that asks only the finally block of a try statement that has one
isTerminalByFinally(ns, n) ==
    LET stmt == ns[n]
    IN  IF stmt.kind = "ReturnStmt" \/ stmt.kind = "ThrowStmt" THEN TRUE
        ELSE IF stmt.kind = "TryStmt"
        THEN IF stmt.finallyBlock # Nil THEN isTerminal(ns, stmt.finallyBlock)
             ELSE /\ isTerminal(ns, stmt.tryBlock)
                  /\ stmt.catchClause # Nil
                  /\ isTerminal(ns, ns[stmt.catchClause].block)
        ELSE IF stmt.kind = "BlockStmt"
        THEN IF isEmpty(ns, n) THEN FALSE
             ELSE isTerminal(ns, lastStmt(ns, n))
        ELSE IF stmt.kind = "IfStmt"
        THEN /\ isTerminal(ns, stmt.then)
             /\ stmt._else # Nil
             /\ isTerminal(ns, stmt._else)
        ELSE FALSE

\* isTerminal that takes an if statement without else branch by its then
\* branch
isTerminalByThen(ns, n) ==
    LET stmt == ns[n]
    IN  IF stmt.kind = "ReturnStmt" \/ stmt.kind = "ThrowStmt" THEN TRUE
        ELSE IF stmt.kind = "TryStmt"
        THEN IF stmt.finallyBlock # Nil
             THEN \/ isTerminal(ns, stmt.finallyBlock)
                  \/ /\ isTerminal(ns, stmt.tryBlock)
                     /\ stmt.catchClause # Nil
                     /\ isTerminal(ns, ns[stmt.catchClause].block)
             ELSE /\ isTerminal(ns, stmt.tryBlock)
                  /\ stmt.catchClause # Nil
                  /\ isTerminal(ns, ns[stmt.catchClause].block)
        ELSE IF stmt.kind = "BlockStmt"
        THEN IF isEmpty(ns, n) THEN FALSE
             ELSE isTerminal(ns, lastStmt(ns, n))
        ELSE IF stmt.kind = "IfStmt"
        THEN /\ isTerminal(ns, stmt.then)
             /\ stmt._else # Nil => isTerminal(ns, stmt._else)
        ELSE FALSE

\* n.isTerminal(), when it returns: do all branches explicitly return a value
isTerminal(ns, n) ==
    LET stmt == ns[n]
    IN  IF stmt.kind = "ReturnStmt" \/ stmt.kind = "ThrowStmt" THEN TRUE
        ELSE IF stmt.kind = "TryStmt"
        THEN IF stmt.finallyBlock # Nil
             THEN \/ isTerminal(ns, stmt.finallyBlock)
                  \/ /\ isTerminal(ns, stmt.tryBlock)
                     /\ stmt.catchClause # Nil
                     /\ isTerminal(ns, ns[stmt.catchClause].block)
             ELSE /\ isTerminal(ns, stmt.tryBlock)
                  /\ stmt.catchClause # Nil
                  /\ isTerminal(ns, ns[stmt.catchClause].block)
        ELSE IF stmt.kind = "BlockStmt"
        THEN IF isEmpty(ns, n) THEN FALSE
             ELSE isTerminal(ns, lastStmt(ns, n))
        ELSE IF stmt.kind = "IfStmt"
        THEN /\ isTerminal(ns, stmt.then)
             /\ stmt._else # Nil
             /\ isTerminal(ns, stmt._else)
        ELSE FALSE

\* n.isTerminal() raises a TypeError: the block of a catch clause that is
\* undefined is read, the operands being evaluated from left to right and
\* only as far as needed
isTerminalRaises(ns, n) ==
    LET stmt == ns[n]
        catchRaises ==
            \/ isTerminalRaises(ns, stmt.tryBlock)
            \/ /\ isTerminal(ns, stmt.tryBlock)
               /\ \/ stmt.catchClause = Nil
                  \/ isTerminalRaises(ns, ns[stmt.catchClause].block)
    IN  IF stmt.kind = "TryStmt"
        THEN IF stmt.finallyBlock # Nil
             THEN \/ isTerminalRaises(ns, stmt.finallyBlock)
                  \/ ~isTerminal(ns, stmt.finallyBlock) /\ catchRaises
             ELSE catchRaises
        ELSE IF stmt.kind = "BlockStmt"
        THEN ~isEmpty(ns, n) /\ isTerminalRaises(ns, lastStmt(ns, n))
        ELSE IF stmt.kind = "IfStmt"
        THEN \/ isTerminalRaises(ns, stmt.then)
             \/ /\ isTerminal(ns, stmt.then)
                /\ stmt._else # Nil
                /\ isTerminalRaises(ns, stmt._else)
        ELSE FALSE

\* node.isTerminal() is asked of a node of the complete tree
terminal(n) ==
    /\ Complete
    /\ answer' = [op |-> "isTerminal", node |-> n,
                  raised |-> isTerminalRaises(nodes, n),
                  result |-> isTerminal(nodes, n)]
    /\ UNCHANGED <<nodes, roots, setLog, limit, memoVars, resolverVars, flattenVars,
                 sfnVars>>

MaxTerminalTryNodes == 9

InitTerminalTry ==
    /\ names = << >>
    /\ nameLog = << >>
    /\ dataSources = << >>
    /\ dsLog = << >>
    /\ created = 0
    /\ decl = << >>
    /\ resolver = NoResolver
    /\ NoSfn
    /\ NoFlatten
    /\ EmptyAst(MaxTerminalTryNodes)

NextTerminalTry ==
    \/ NewIdentifier
    \/ NewReturnStmt
    \/ \E k \in 0..Len(roots) : NewBlockStmt(k)
    \/ NewCatchClause(FALSE)
    \/ \E hasCatch, hasFinally \in BOOLEAN : NewTryStmt(hasCatch, hasFinally)
    \/ \E n \in 1..Len(nodes) : terminal(n)

SpecTerminalTry == InitTerminalTry /\ [][NextTerminalTry]_vars

\* the finally block of try statement t is terminal
FinallyTerminal(t) ==
    nodes[t].finallyBlock # Nil /\ isTerminal(nodes, nodes[t].finallyBlock)

\* the try block and the block of the catch clause of t are both terminal
TryAndCatchTerminal(t) ==
    /\ isTerminal(nodes, nodes[t].tryBlock)
    /\ nodes[t].catchClause # Nil
    /\ isTerminal(nodes, nodes[nodes[t].catchClause].block)

\* C14: isTerminal() of a try statement is true if its finally block is
\* terminal, or, when it has no finally block, if the try block and the catch
\* block are both terminal; otherwise it is false
C14_TryTerminal ==
    /\ \A t \in TryStmts :
           /\ ~isTerminalRaises(nodes, t)
           /\ isTerminal(nodes, t) =
                  \/ FinallyTerminal(t)
                  \/ nodes[t].finallyBlock = Nil /\ TryAndCatchTerminal(t)
    /\ answer.op = "isTerminal"
           => /\ answer.raised = isTerminalRaises(nodes, answer.node)
              /\ answer.result = isTerminal(nodes, answer.node)

\* C14, amended: whenever isTerminal() of a try statement returns, it is true
\* if the finally block is terminal or if the try block and the catch block
\* are both terminal, with or without a finally block, and false otherwise; it
\* raises a TypeError when the operands raise none, the try block is terminal,
\* the finally block is not, and there is no catch clause
C14_TryTerminalWithOrWithoutFinally ==
    /\ \A t \in TryStmts :
           /\ ~isTerminalRaises(nodes, t)
                  => isTerminal(nodes, t) =
                         (FinallyTerminal(t) \/ TryAndCatchTerminal(t))
           /\ ( /\ ~isTerminalRaises(nodes, nodes[t].tryBlock)
                /\ nodes[t].finallyBlock # Nil
                       => ~isTerminalRaises(nodes, nodes[t].finallyBlock)
                /\ nodes[t].catchClause = Nil )
                  => isTerminalRaises(nodes, t) =
                         (isTerminal(nodes, nodes[t].tryBlock) /\ ~FinallyTerminal(t))
    /\ answer.op = "isTerminal"
           => /\ answer.raised = isTerminalRaises(nodes, answer.node)
              /\ answer.result = isTerminal(nodes, answer.node)

\* isTerminal() was asked of try { return x } catch { return x } finally { }
\* and returned true
C14_Witness ==
    /\ answer.op = "isTerminal"
    /\ answer.node \in TryStmts
    /\ nodes[answer.node].finallyBlock # Nil
    /\ isEmpty(nodes, nodes[answer.node].finallyBlock)
    /\ nodes[answer.node].catchClause # Nil
    /\ ~isEmpty(nodes, nodes[answer.node].tryBlock)
    /\ ~isEmpty(nodes, nodes[nodes[answer.node].catchClause].block)
    /\ nodes[lastStmt(nodes, nodes[answer.node].tryBlock)].kind = "ReturnStmt"
    /\ nodes[lastStmt(nodes, nodes[nodes[answer.node].catchClause].block)].kind
           = "ReturnStmt"
    /\ ~answer.raised
    /\ answer.result

MaxTerminalNodes == 8

InitTerminal ==
    /\ names = << >>
    /\ nameLog = << >>
    /\ dataSources = << >>
    /\ dsLog = << >>
    /\ created = 0
    /\ decl = << >>
    /\ resolver = NoResolver
    /\ NoSfn
    /\ NoFlatten
    /\ EmptyAst(MaxTerminalNodes)

NextTerminal ==
    \/ NewIdentifier
    \/ NewReturnStmt
    \/ NewThrowStmt
    \/ \E k \in 0..Len(roots) : NewBlockStmt(k)
    \/ \E hasElse \in BOOLEAN : NewIfStmt(hasElse)
    \/ NewWhileStmt
    \/ \E n \in 1..Len(nodes) : terminal(n)

SpecTerminal == InitTerminal /\ [][NextTerminal]_vars

\* the kinds of node isTerminal() has a branch for
TerminalKinds == {"ReturnStmt", "ThrowStmt", "TryStmt", "BlockStmt", "IfStmt"}

\* C15: isTerminal() is true for return and throw statements; for a block it
\* is false when the block is empty and isTerminal() of the last statement
\* otherwise; for an if statement it is true exactly when there are a then and
\* an else branch and both are terminal; for every kind of node other than
\* these and the try statement it is false
C15_TerminalByKind ==
    /\ \A n \in 1..Len(nodes) :
           /\ nodes[n].kind \in {"ReturnStmt", "ThrowStmt"}
                  => isTerminal(nodes, n)
           /\ nodes[n].kind = "BlockStmt"
                  => isTerminal(nodes, n) =
                         IF isEmpty(nodes, n) THEN FALSE
                         ELSE isTerminal(nodes, lastStmt(nodes, n))
           /\ nodes[n].kind = "IfStmt"
                  => isTerminal(nodes, n) =
                         ( /\ nodes[n].then # Nil
                           /\ nodes[n]._else # Nil
                           /\ isTerminal(nodes, nodes[n].then)
                           /\ isTerminal(nodes, nodes[n]._else) )
           /\ nodes[n].kind \notin TerminalKinds => ~isTerminal(nodes, n)
           /\ nodes[n].kind # "TryStmt" /\ TryStmts = {}
                  => ~isTerminalRaises(nodes, n)
    /\ answer.op = "isTerminal"
           => /\ answer.raised = isTerminalRaises(nodes, answer.node)
              /\ answer.result = isTerminal(nodes, answer.node)

\* isTerminal() was asked of if (c) { return x } else { throw x } and
\* returned true
C15_Witness ==
    /\ answer.op = "isTerminal"
    /\ nodes[answer.node].kind = "IfStmt"
    /\ nodes[answer.node]._else # Nil
    /\ ~isEmpty(nodes, nodes[answer.node].then)
    /\ nodes[lastStmt(nodes, nodes[answer.node].then)].kind = "ReturnStmt"
    /\ nodes[nodes[answer.node]._else].kind = "BlockStmt"
    /\ ~isEmpty(nodes, nodes[answer.node]._else)
    /\ nodes[lastStmt(nodes, nodes[answer.node]._else)].kind = "ThrowStmt"
    /\ ~answer.raised
    /\ answer.result

----------------------------------------------------------------------------
(* BaseNode: getLexicalScope *)

\* new FunctionDecl([new ParameterDecl(name)], body): the body is the last
\* root
NewFunctionDecl(name) ==
    /\ Len(nodes) + 1 < limit
    /\ Len(roots) >= 1
    /\ nodes[TopRoot(0)].kind = "BlockStmt"
    /\ LET param == NewId(nodes)
           id == param + 1
           made == nodes \o
                   <<[BaseNode("ParameterDecl", "Decl") EXCEPT !.name = name],
                     [BaseNode("FunctionDecl", "Decl") EXCEPT
                         !.parameters = <<param>>, !.body = TopRoot(0)]>>
       IN  Constructed(SetParent(SetParent(made, param, id), TopRoot(0), id),
                       Append(PopRoots(1), id))

\* new ForInStmt(new VariableDecl(name), new Identifier(..), body), or the
\* same for ForOfStmt: the body is the last root
NewForStmt(kind, name) ==
    /\ Len(nodes) + 2 < limit
    /\ Len(roots) >= 1
    /\ nodes[TopRoot(0)].kind = "BlockStmt"
    /\ LET variableDecl == NewId(nodes)
           expr == variableDecl + 1
           id == variableDecl + 2
           made == nodes \o
                   <<[BaseNode("VariableStmt", "Stmt") EXCEPT !.name = name],
                     BaseNode("Identifier", "Expr"),
                     [BaseNode(kind, "Stmt") EXCEPT
                         !.variableDecl = variableDecl, !.expr = expr,
                         !.body = TopRoot(0)]>>
       IN  Constructed(
               SetParent(SetParent(SetParent(made, variableDecl, id), expr, id),
                         TopRoot(0), id),
               Append(PopRoots(1), id))

RECURSIVE ParameterBindings(_, _, _)
\* the reduce of getNames over the parameters of a function, from parameter i
ParameterBindings(ns, parameters, i) ==
    IF i > Len(parameters) THEN << >>
    ELSE <<[name |-> ns[parameters[i]].name, binding |-> parameters[i]]>>
             \o ParameterBindings(ns, parameters, i + 1)

\* getNames(node) of getLexicalScope: the bindings a node introduces
getNames(ns, n) ==
    IF n = Nil THEN << >>
    ELSE IF ns[n].kind = "VariableStmt"
    THEN <<[name |-> ns[n].name, binding |-> n]>>
    ELSE IF ns[n].kind = "FunctionExpr" \/ ns[n].kind = "FunctionDecl"
    THEN ParameterBindings(ns, ns[n].parameters, 1)
    ELSE IF ns[n].kind = "ForInStmt" \/ ns[n].kind = "ForOfStmt"
    THEN <<[name |-> ns[ns[n].variableDecl].name,
            binding |-> ns[n].variableDecl]>>
    ELSE IF /\ ns[n].kind = "CatchClause"
            /\ ns[n].variableDecl # Nil
            /\ ns[ns[n].variableDecl].name # ""
    THEN <<[name |-> ns[ns[n].variableDecl].name,
            binding |-> ns[n].variableDecl]>>
    ELSE << >>

RECURSIVE LexicalBindings(_, _)

\* the bindings with those of the node itself put before the outer ones
LexicalBindingsInnerFirst(ns, n) ==
    IF n = Nil THEN << >>
    ELSE getNames(ns, n)
             \o LexicalBindings(ns, IF ns[n].nodeKind = "Stmt" /\ ns[n].prev # Nil
                                    THEN ns[n].prev ELSE ns[n].parent)

\* the inner getLexicalScope(node): the bindings from the outermost to the
\* node's own
LexicalBindings(ns, n) ==
    IF n = Nil THEN << >>
    ELSE LexicalBindings(ns, IF ns[n].nodeKind = "Stmt" /\ ns[n].prev # Nil
                             THEN ns[n].prev ELSE ns[n].parent)
             \o getNames(ns, n)

\* new Map(bindings): a later entry replaces an earlier one of the same key
NewMap(bindings) ==
    [name \in {bindings[i].name : i \in 1..Len(bindings)} |->
        bindings[CHOOSE i \in 1..Len(bindings) :
                     /\ bindings[i].name = name
                     /\ \A j \in 1..Len(bindings) :
                            bindings[j].name = name => j <= i].binding]

\* n.getLexicalScope(): name to the node visible in this node's scope
getLexicalScope(ns, n) == NewMap(LexicalBindings(ns, n))

\* node.getLexicalScope() is asked of a node of the complete tree
lexicalScope(n) ==
    /\ Complete
    /\ answer' = [op |-> "getLexicalScope", node |-> n,
                  result |-> getLexicalScope(nodes, n)]
    /\ UNCHANGED <<nodes, roots, setLog, limit, memoVars, resolverVars, flattenVars,
                 sfnVars>>

\* The names variables and parameters are declared with
ScopeNames == {"a", "b"}

MaxScopeNodes == 6

InitScope ==
    /\ names = << >>
    /\ nameLog = << >>
    /\ dataSources = << >>
    /\ dsLog = << >>
    /\ created = 0
    /\ decl = << >>
    /\ resolver = NoResolver
    /\ NoSfn
    /\ NoFlatten
    /\ EmptyAst(MaxScopeNodes)

NextScope ==
    \/ \E name \in ScopeNames : NewVariableDecl(name)
    \/ \E k \in 0..Len(roots) : NewBlockStmt(k)
    \/ \E name \in ScopeNames : NewFunctionDecl(name)
    \/ \E kind \in {"ForInStmt", "ForOfStmt"}, name \in ScopeNames :
           NewForStmt(kind, name)
    \/ NewCatchClause(TRUE)
    \/ NewTryStmt(TRUE, FALSE)
    \/ \E n \in 1..Len(nodes) : lexicalScope(n)

SpecScope == InitScope /\ [][NextScope]_vars

\* the position of statement n in the block that holds it, 0 when none does
PositionInBlock(n) ==
    IF nodes[n].parent = Nil \/ nodes[nodes[n].parent].kind # "BlockStmt" THEN 0
    ELSE CHOOSE i \in 1..Len(nodes[nodes[n].parent].statements) :
             nodes[nodes[n].parent].statements[i] = n

\* the statements before n in its block
PrecedingSiblings(n) ==
    IF PositionInBlock(n) = 0 THEN {}
    ELSE {nodes[nodes[n].parent].statements[j] : j \in 1..(PositionInBlock(n) - 1)}

\* the statements after n in its block
FollowingSiblings(n) ==
    IF PositionInBlock(n) = 0 THEN {}
    ELSE {nodes[nodes[n].parent].statements[j] :
             j \in (PositionInBlock(n) + 1)..Len(nodes[nodes[n].parent].statements)}

\* the nodes whose bindings n sees: itself, the statements before it, the
\* nodes it is inside of and the statements before each of these
Binders(n) ==
    ({n} \cup AncestorsOf(n))
        \cup UNION {PrecedingSiblings(m) : m \in {n} \cup AncestorsOf(n)}

\* the bindings node m introduces
Introduced(m) ==
    {getNames(nodes, m)[i] : i \in 1..Len(getNames(nodes, m))}

RECURSIVE ScopeWalk(_)
\* the binders of n from the nearest to the farthest: n, the statements
\* before it from the last to the first, then the same from its parent
ScopeWalk(n) ==
    IF n = Nil THEN << >>
    ELSE <<n>> \o ScopeWalk(IF PrecedingSiblings(n) # {}
                            THEN nodes[n].prev ELSE nodes[n].parent)

\* the nearest binder of n that introduces the name
NearestBinder(n, name) ==
    ScopeWalk(n)[CHOOSE i \in 1..Len(ScopeWalk(n)) :
                     /\ \E b \in Introduced(ScopeWalk(n)[i]) : b.name = name
                     /\ \A j \in 1..(i - 1) :
                            \A b \in Introduced(ScopeWalk(n)[j]) : b.name # name]

\* the values of a map
Range(f) == {f[x] : x \in DOMAIN f}

\* C16: getLexicalScope() of a node has the names introduced by the node,
\* by the statements before it in its block, by the nodes it is inside of
\* (functions with their parameters, loops with their variable, catch clauses
\* with their error variable) and by the statements before each of these; it
\* holds no binding introduced by a statement after the node in its block; and
\* each name is mapped to the binding of the nearest node that introduces it
C16_LexicalScope ==
    /\ \A n \in 1..Len(nodes) :
           LET scope == getLexicalScope(nodes, n)
           IN  /\ \A m \in Binders(n) :
                      \A b \in Introduced(m) : b.name \in DOMAIN scope
               /\ \A f \in FollowingSiblings(n) :
                      \A b \in Introduced(f) : b.binding \notin Range(scope)
               /\ \A name \in DOMAIN scope :
                      /\ \E m \in Binders(n) :
                             \E b \in Introduced(m) : b.name = name
                      /\ \E b \in Introduced(NearestBinder(n, name)) :
                             b.name = name /\ b.binding = scope[name]
    /\ answer.op = "getLexicalScope"
           => answer.result = getLexicalScope(nodes, answer.node)

\* getLexicalScope() was asked of the second of three declarations of a block
\* that follows a declaration of the same name in an outer block, and returned
\* the first two declarations of the inner block
C16_Witness ==
    /\ answer.op = "getLexicalScope"
    /\ nodes[answer.node].kind = "VariableStmt"
    /\ nodes[answer.node].name = "b"
    /\ nodes[answer.node].prev # Nil
    /\ nodes[nodes[answer.node].prev].name = "a"
    /\ nodes[answer.node].next # Nil
    /\ nodes[nodes[answer.node].next].kind = "VariableStmt"
    /\ \E m \in PrecedingSiblings(nodes[answer.node].parent) :
           nodes[m].kind = "VariableStmt" /\ nodes[m].name = "a"
    /\ DOMAIN answer.result = {"a", "b"}
    /\ answer.result["a"] = nodes[answer.node].prev
    /\ answer.result["b"] = answer.node

----------------------------------------------------------------------------
(* BaseNode: contains, findChildren and collectChildren as queries *)

\* The type guards handed to findChildren
Guards == {"isStmt", "isBlockStmt"}

\* is(node), for a type guard
Is(is, ns, n) ==
    IF is = "isStmt" THEN ns[n].nodeKind = "Stmt"
    ELSE ns[n].kind = "BlockStmt"

\* The functions handed to collectChildren: node => [node],
\* node => isStmt(node) ? [node, node] : []
Mappers == {"self", "stmtTwice"}

\* f(node), for a function handed to collectChildren
Apply(f, ns, n) ==
    IF f = "self" THEN <<n>>
    ELSE IF ns[n].nodeKind = "Stmt" THEN <<n, n>> ELSE << >>

\* a.findChildren(is)
findChildren(ns, a, is) ==
    SelectSeq(ns[a].children, LAMBDA child : Is(is, ns, child))

RECURSIVE collectChildrenDeepFrom(_, _, _, _)
\* the results of f for the children of a up to child i, each followed by
\* those of its own children, and so on
collectChildrenDeepFrom(ns, a, f, i) ==
    IF i = 0 THEN << >>
    ELSE collectChildrenDeepFrom(ns, a, f, i - 1)
             \o Apply(f, ns, ns[a].children[i])
             \o collectChildrenDeepFrom(ns, ns[a].children[i], f,
                                        Len(ns[ns[a].children[i]].children))

\* collectChildren that descends into the whole subtree
collectChildrenDeep(ns, a, f) ==
    collectChildrenDeepFrom(ns, a, f, Len(ns[a].children))

RECURSIVE collectChildrenReduce(_, _, _, _)
\* the reduce of collectChildren over the first i children of a
collectChildrenReduce(ns, a, f, i) ==
    IF i = 0 THEN << >>
    ELSE collectChildrenReduce(ns, a, f, i - 1) \o Apply(f, ns, ns[a].children[i])

\* a.collectChildren(f)
collectChildren(ns, a, f) ==
    collectChildrenReduce(ns, a, f, Len(ns[a].children))

\* a.contains(b, alg) is asked of two nodes of the complete tree
containsAsked(a, b, alg) ==
    /\ Complete
    /\ answer' = [op |-> "contains", node |-> a, other |-> b, alg |-> alg,
                  result |-> contains(nodes, a, b, alg)]
    /\ UNCHANGED <<nodes, roots, setLog, limit, memoVars, resolverVars, flattenVars,
                 sfnVars>>

\* a.findChildren(is) is asked of a node of the complete tree
findChildrenAsked(a, is) ==
    /\ Complete
    /\ answer' = [op |-> "findChildren", node |-> a, is |-> is,
                  result |-> findChildren(nodes, a, is)]
    /\ UNCHANGED <<nodes, roots, setLog, limit, memoVars, resolverVars, flattenVars,
                 sfnVars>>

\* a.collectChildren(f) is asked of a node of the complete tree
collectChildrenAsked(a, f) ==
    /\ Complete
    /\ answer' = [op |-> "collectChildren", node |-> a, f |-> f,
                  result |-> collectChildren(nodes, a, f)]
    /\ UNCHANGED <<nodes, roots, setLog, limit, memoVars, resolverVars, flattenVars,
                 sfnVars>>

MaxChildrenNodes == 5

InitChildren ==
    /\ names = << >>
    /\ nameLog = << >>
    /\ dataSources = << >>
    /\ dsLog = << >>
    /\ created = 0
    /\ decl = << >>
    /\ resolver = NoResolver
    /\ NoSfn
    /\ NoFlatten
    /\ EmptyAst(MaxChildrenNodes)

NextChildren ==
    \/ NewIdentifier
    \/ NewExprStmt
    \/ \E k \in 0..Len(roots) : NewBlockStmt(k)
    \/ NewWhileStmt
    \/ \E a, b \in 1..Len(nodes), alg \in {"dfs", "bfs"} : containsAsked(a, b, alg)
    \/ \E a \in 1..Len(nodes), is \in Guards : findChildrenAsked(a, is)
    \/ \E a \in 1..Len(nodes), f \in Mappers : collectChildrenAsked(a, f)

SpecChildren == InitChildren /\ [][NextChildren]_vars

\* C17: a.contains(b, "dfs") and a.contains(b, "bfs") are equal for every two
\* nodes, and true exactly when b is inside a: a child of a, a child of a
\* child, and so on; so a.contains(a) is false
C17_ContainsIsProperDescendant ==
    /\ \A a, b \in 1..Len(nodes) :
           /\ contains(nodes, a, b, "dfs") = contains(nodes, a, b, "bfs")
           /\ contains(nodes, a, b, "dfs") = (a \in AncestorsOf(b))
    /\ \A a \in 1..Len(nodes) : ~contains(nodes, a, a, "dfs")
    /\ answer.op = "contains"
           => answer.result =
                  contains(nodes, answer.node, answer.other, answer.alg)

\* a.contains(b, "bfs") was asked with b a child of the second child of a, the
\* first child of a having a child of its own, and returned true
C17_Witness ==
    /\ answer.op = "contains"
    /\ answer.alg = "bfs"
    /\ Len(nodes[answer.node].children) >= 2
    /\ nodes[nodes[answer.node].children[1]].children # << >>
    /\ nodes[answer.other].parent = nodes[answer.node].children[2]
    /\ answer.result

\* the nodes inside a
Descendants(a) == {b \in 1..Len(nodes) : a \in AncestorsOf(b)}

\* the elements of a sequence
Elements(list) == {list[i] : i \in 1..Len(list)}

\* C18: collectChildren(f) applies f to every node inside the receiver and
\* returns the results concatenated, and findChildren(is) returns the
\* children that satisfy is, in the order of children
C18_CollectWholeSubtree ==
    /\ \A a \in 1..Len(nodes) :
           /\ Elements(collectChildren(nodes, a, "self")) = Descendants(a)
           /\ \A is \in Guards :
                  findChildren(nodes, a, is) =
                      SelectSeq(nodes[a].children, LAMBDA c : Is(is, nodes, c))
    /\ answer.op = "collectChildren"
           => answer.result = collectChildren(nodes, answer.node, answer.f)

RECURSIVE Concatenated(_, _, _)
\* the results of f for the first i nodes of a list, concatenated
Concatenated(list, f, i) ==
    IF i = 0 THEN << >>
    ELSE Concatenated(list, f, i - 1) \o Apply(f, nodes, list[i])

\* C18, amended: collectChildren(f) applies f to the children of the
\* receiver, in the order of children, and to no node further down, and
\* returns the results concatenated; findChildren(is) returns the children
\* that satisfy is, in the order of children
C18_CollectChildrenOnly ==
    /\ \A a \in 1..Len(nodes) :
           /\ \A f \in Mappers :
                  collectChildren(nodes, a, f) =
                      Concatenated(nodes[a].children, f, Len(nodes[a].children))
           /\ collectChildren(nodes, a, "self") = nodes[a].children
           /\ \A is \in Guards :
                  /\ Elements(findChildren(nodes, a, is)) =
                         {c \in Elements(nodes[a].children) : Is(is, nodes, c)}
                  /\ \A i, j \in 1..Len(findChildren(nodes, a, is)) :
                         i < j => \E k, l \in 1..Len(nodes[a].children) :
                                      /\ k < l
                                      /\ nodes[a].children[k] =
                                             findChildren(nodes, a, is)[i]
                                      /\ nodes[a].children[l] =
                                             findChildren(nodes, a, is)[j]
    /\ answer.op = "collectChildren"
           => answer.result = collectChildren(nodes, answer.node, answer.f)
    /\ answer.op = "findChildren"
           => answer.result = findChildren(nodes, answer.node, answer.is)

\* collectChildren(node => [node]) was asked of a node that has two children
\* and a grandchild, and returned the two children
C18_Witness ==
    /\ answer.op = "collectChildren"
    /\ answer.f = "self"
    /\ Len(nodes[answer.node].children) = 2
    /\ Descendants(answer.node) # Elements(nodes[answer.node].children)
    /\ answer.result = nodes[answer.node].children

----------------------------------------------------------------------------
(* evalToConstant and flattenExpression *)

\* JavaScript's undefined where an expression or a wrapped constant is expected
Absent == [kind |-> Undefined]

\* an error was thrown
Raised(message) == [kind |-> "Error", message |-> message]
isRaised(r) == r.kind = "Error"

\* JavaScript values, tagged with their typeof (null apart)
String(s) == [kind |-> "string", string |-> s]
Number(n) == [kind |-> "number", number |-> n]
Boolean(b) == [kind |-> "boolean", boolean |-> b]
Object(properties) == [kind |-> "object", properties |-> properties]
JsNull == [kind |-> "null"]
JsUndefined == [kind |-> Undefined]

\* a value in a condition
Truthy(v) ==
    CASE v.kind = "string" -> v.string # ""
      [] v.kind = "number" -> v.number # 0
      [] v.kind = "boolean" -> v.boolean
      [] v.kind = "object" -> TRUE
      [] OTHER -> FALSE

\* The expression nodes the flattener takes apart and builds, next to Ident,
\* Prop and Element; the type of an access is carried along unchanged and
\* left out
StringLiteralExpr(value) == [kind |-> "StringLiteralExpr", value |-> value]
NumberLiteralExpr(value) == [kind |-> "NumberLiteralExpr", value |-> value]
BooleanLiteralExpr(value) == [kind |-> "BooleanLiteralExpr", value |-> value]
NullLiteralExpr == [kind |-> "NullLiteralExpr"]
UndefinedLiteralExpr == [kind |-> "UndefinedLiteralExpr"]
ReferenceExpr(value) == [kind |-> "ReferenceExpr", ref |-> value]
UnaryExpr(op, e) == [kind |-> "UnaryExpr", op |-> op, expr |-> e]
BinaryExpr(left, op, right) ==
    [kind |-> "BinaryExpr", left |-> left, op |-> op, right |-> right]
ArrayLiteralExpr(items) == [kind |-> "ArrayLiteralExpr", items |-> items]
SpreadElementExpr(e) == [kind |-> "SpreadElementExpr", expr |-> e]
ObjectLiteralExpr(properties) ==
    [kind |-> "ObjectLiteralExpr", properties |-> properties]
PropAssignExpr(name, e) == [kind |-> "PropAssignExpr", name |-> name, expr |-> e]
SpreadAssignExpr(e) == [kind |-> "SpreadAssignExpr", expr |-> e]
ComputedPropertyNameExpr(e) == [kind |-> "ComputedPropertyNameExpr", expr |-> e]
TemplateExpr(exprs) == [kind |-> "TemplateExpr", exprs |-> exprs]

\* new X(...): the constructor calls setParent on every child, which is a
\* TypeError when the child is undefined
New(node, children) ==
    IF \E i \in DOMAIN children : children[i] = Absent
    THEN Raised("TypeError: Cannot read properties of undefined")
    ELSE node

\* { constant: c }
Constant(c) == [kind |-> "Constant", constant |-> c]

\* c?.constant
ConstantOf(c) == IF c = Absent THEN JsUndefined ELSE c.constant

assertNumber(v) ==
    IF v.kind = "number" THEN v ELSE Raised("Expected number")

assertNodeKind(e, kind) ==
    IF e.kind = kind THEN e ELSE Raised("Expected node of kind " \o kind)

RECURSIVE evalToConstant(_)
evalToConstant(expr) ==
    IF expr.kind = "StringLiteralExpr" THEN Constant(String(expr.value))
    ELSE IF expr.kind = "NumberLiteralExpr" THEN Constant(Number(expr.value))
    ELSE IF expr.kind = "BooleanLiteralExpr" THEN Constant(Boolean(expr.value))
    ELSE IF expr.kind = "NullLiteralExpr" THEN Constant(JsNull)
    ELSE IF expr.kind = "UndefinedLiteralExpr" THEN Constant(JsUndefined)
    ELSE IF expr.kind = "UnaryExpr" /\ expr.op = "-" THEN
        LET operand == evalToConstant(expr.expr) IN
        IF isRaised(operand) THEN operand
        ELSE LET number == assertNumber(ConstantOf(operand)) IN
             IF isRaised(number) THEN number
             ELSE Constant(Number(0 - number.number))
    ELSE IF expr.kind = "PropAccessExpr" THEN
        LET target == evalToConstant(expr.expr) IN
        IF isRaised(target) THEN target
        ELSE LET obj == ConstantOf(target) IN
             IF ~Truthy(obj) THEN Absent
             ELSE IF obj.kind # "object"
             THEN Raised("TypeError: Cannot use 'in' operator")
             ELSE IF expr.name \in DOMAIN obj.properties
             THEN Constant(obj.properties[expr.name])
             ELSE Absent
    ELSE IF expr.kind = "ReferenceExpr" THEN Constant(expr.ref)
    ELSE Absent

getPropertyAccessKey(expr) ==
    LET found == IF expr.kind = "PropAccessExpr"
                 THEN Constant(String(expr.name))
                 ELSE evalToConstant(expr.element)
    IN  IF isRaised(found) THEN found
        ELSE LET key == ConstantOf(found) IN
             IF key.kind \in {"string", "number"} THEN key
             ELSE Raised("Property key much be a number or a string")

RECURSIVE flattenExpression(_, _)
RECURSIVE flattenEach(_, _, _)
RECURSIVE flattenItems(_, _, _, _)
RECURSIVE flattenProperties(_, _, _, _)

getPropertyAccessKeyFlatten(expr, scope) ==
    IF expr.kind = "ElementAccessExpr" THEN
        LET element == flattenExpression(expr.element, scope) IN
        IF isRaised(element) THEN element
        ELSE LET access == New(Element(expr.expr, element),
                               <<expr.expr, element>>) IN
             IF isRaised(access) THEN access ELSE getPropertyAccessKey(access)
    ELSE getPropertyAccessKey(expr)

\* a list of expressions, as opposed to a thrown error
List(items) == [kind |-> "List", items |-> items]

\* exprs.map((x) => flattenExpression(x, scope)), from the i-th on
flattenEach(exprs, scope, i) ==
    IF i > Len(exprs) THEN List(<< >>)
    ELSE LET x == flattenExpression(exprs[i], scope) IN
         IF isRaised(x) THEN x
         ELSE LET rest == flattenEach(exprs, scope, i + 1) IN
              IF isRaised(rest) THEN rest ELSE List(<<x>> \o rest.items)

\* p.name is the key: an identifier or a string literal of that name
isNamed(p, key) ==
    /\ p.kind = "PropAssignExpr"
    /\ \/ p.name.kind = "Identifier" /\ p.name.name = key
       \/ p.name.kind = "StringLiteralExpr" /\ p.name.value = key

\* properties.filter(isPropAssignExpr)
PropAssigns(properties) ==
    SelectSeq(properties, LAMBDA p : p.kind = "PropAssignExpr")

\* items[key]: undefined outside the array
ItemAt(items, key) ==
    IF key \in 0 .. Len(items) - 1 THEN items[key + 1] ELSE Absent

\* the access as it is resolved against the target as written
flattenAccessAsWritten(expr, scope) ==
    LET key == getPropertyAccessKeyFlatten(expr, scope) IN
    IF isRaised(key) THEN key
    ELSE LET parent == expr.expr IN
         IF parent.kind = "ObjectLiteralExpr" THEN
             IF key.kind = "string" THEN
                 LET found == {i \in DOMAIN parent.properties :
                                 isNamed(parent.properties[i], key.string)}
                 IN  IF found = {}
                     THEN Raised("Cannot find property " \o key.string)
                     ELSE parent.properties[
                            CHOOSE i \in found : \A j \in found : i <= j].expr
             ELSE Raised("Object access must be a string.")
         ELSE IF parent.kind = "ArrayLiteralExpr" THEN
             IF key.kind = "number" THEN ItemAt(parent.items, key.number)
             ELSE Raised("Array access must be a number.")
         ELSE IF key.kind = "string"
         THEN New(Prop(parent, key.string), <<parent>>)
         ELSE New(Element(parent, NumberLiteralExpr(key.number)), <<parent>>)

\* the branch of flattenExpression for a PropAccessExpr or ElementAccessExpr
flattenAccess(expr, scope) ==
    LET key == getPropertyAccessKeyFlatten(expr, scope) IN
    IF isRaised(key) THEN key
    ELSE LET parent == flattenExpression(expr.expr, scope) IN
         IF isRaised(parent) THEN parent
         ELSE IF parent.kind = "ObjectLiteralExpr" THEN
             IF key.kind = "string" THEN
                 LET found == {i \in DOMAIN parent.properties :
                                 isNamed(parent.properties[i], key.string)}
                 IN  IF found = {}
                     THEN Raised("Cannot find property " \o key.string)
                     ELSE parent.properties[
                            CHOOSE i \in found : \A j \in found : i <= j].expr
             ELSE Raised("Object access must be a string.")
         ELSE IF parent.kind = "ArrayLiteralExpr" THEN
             IF key.kind = "number" THEN ItemAt(parent.items, key.number)
             ELSE Raised("Array access must be a number.")
         ELSE IF key.kind = "string"
         THEN New(Prop(parent, key.string), <<parent>>)
         ELSE New(Element(parent, NumberLiteralExpr(key.number)), <<parent>>)

\* expr.items.reduce(...) from the i-th item on, items being the accumulator
flattenItems(list, scope, i, items) ==
    IF i > Len(list) THEN List(items)
    ELSE LET x == list[i] IN
         IF x.kind = "SpreadElementExpr" THEN
             LET ref == flattenExpression(x.expr, scope) IN
             IF isRaised(ref) THEN ref
             ELSE IF ref.kind = "ArrayLiteralExpr"
             THEN flattenItems(list, scope, i + 1, items \o ref.items)
             ELSE Raised("Event Bridge input transforms do not support array spreading non-constant arrays.")
         ELSE LET item == flattenExpression(x, scope) IN
              IF isRaised(item) THEN item
              ELSE flattenItems(list, scope, i + 1, Append(items, item))

\* new PropAssignExpr(name, flattenExpression(e.expr, scope))
flattenPropAssign(name, e, scope) ==
    IF isRaised(name) THEN name
    ELSE LET value == flattenExpression(e.expr, scope) IN
         IF isRaised(value) THEN value
         ELSE New(PropAssignExpr(name, value), <<name, value>>)

\* expr.properties.reduce(...) from the i-th property on
flattenProperties(list, scope, i, props) ==
    IF i > Len(list) THEN List(props)
    ELSE LET e == list[i] IN
         IF e.kind = "PropAssignExpr" THEN
             LET name == IF e.name.kind = "Identifier" THEN e.name
                         ELSE LET n == flattenExpression(e.name, scope) IN
                              IF isRaised(n) THEN n
                              ELSE assertNodeKind(n, "StringLiteralExpr")
                 prop == flattenPropAssign(name, e, scope)
             IN  IF isRaised(prop) THEN prop
                 ELSE flattenProperties(list, scope, i + 1, Append(props, prop))
         ELSE LET spread == flattenExpression(e.expr, scope) IN
              IF isRaised(spread) THEN spread
              ELSE IF spread.kind = "ObjectLiteralExpr"
              THEN flattenProperties(list, scope, i + 1,
                                     props \o PropAssigns(spread.properties))
              ELSE Raised("Event Bridge input transforms do not support object spreading non-constant objects.")

\* String(c) as Array.prototype.join takes it: null and undefined are empty
JoinText(c) ==
    CASE c.kind = "string" -> c.string
      [] c.kind = "number" -> ToString(c.number)
      [] c.kind = "boolean" -> IF c.boolean THEN "true" ELSE "false"
      [] c.kind = "object" -> "[object Object]"
      [] OTHER -> ""

\* constants.map((e) => e.constant).join("")
RECURSIVE Join(_, _)
Join(constants, i) ==
    IF i > Len(constants) THEN ""
    ELSE JoinText(constants[i].constant) \o Join(constants, i + 1)

\* the branch of flattenExpression for a TemplateExpr
flattenTemplate(expr, scope) ==
    LET flattenedExpressions == flattenEach(expr.exprs, scope, 1) IN
    IF isRaised(flattenedExpressions) THEN flattenedExpressions
    ELSE LET exprs == flattenedExpressions.items
             flattenedConstants ==
                 [i \in DOMAIN exprs |-> evalToConstant(exprs[i])]
             thrown == {i \in DOMAIN exprs : isRaised(flattenedConstants[i])}
         IN  IF thrown # {}
             THEN flattenedConstants[CHOOSE i \in thrown :
                                         \A j \in thrown : i <= j]
             ELSE IF \A i \in DOMAIN exprs : flattenedConstants[i] # Absent
             THEN StringLiteralExpr(Join(flattenedConstants, 1))
             ELSE New(TemplateExpr(exprs), exprs)

flattenExpression(expr, scope) ==
    IF expr.kind = "UnaryExpr" THEN
        LET operand == flattenExpression(expr.expr, scope) IN
        IF isRaised(operand) THEN operand
        ELSE New(UnaryExpr(expr.op, operand), <<operand>>)
    ELSE IF expr.kind = "Identifier" THEN
        IF expr.name \in DOMAIN scope THEN
            IF scope[expr.name] = Absent
            THEN Raised("Reference " \o expr.name \o " is not yet instantiated.")
            ELSE scope[expr.name]
        ELSE expr
    ELSE IF expr.kind \in {"PropAccessExpr", "ElementAccessExpr"} THEN
        flattenAccess(expr, scope)
    ELSE IF expr.kind = "ComputedPropertyNameExpr" THEN
        flattenExpression(expr.expr, scope)
    ELSE IF expr.kind = "ArrayLiteralExpr" THEN
        LET items == flattenItems(expr.items, scope, 1, << >>) IN
        IF isRaised(items) THEN items
        ELSE New(ArrayLiteralExpr(items.items), items.items)
    ELSE IF expr.kind = "BinaryExpr" THEN
        LET left == flattenExpression(expr.left, scope) IN
        IF isRaised(left) THEN left
        ELSE LET right == flattenExpression(expr.right, scope) IN
             IF isRaised(right) THEN right
             ELSE New(BinaryExpr(left, expr.op, right), <<left, right>>)
    ELSE IF expr.kind = "ObjectLiteralExpr" THEN
        LET props == flattenProperties(expr.properties, scope, 1, << >>) IN
        IF isRaised(props) THEN props
        ELSE ObjectLiteralExpr(props.items)
    ELSE IF expr.kind = "TemplateExpr" THEN
        flattenTemplate(expr, scope)
    ELSE expr

----------------------------------------------------------------------------
(* flattenExpression applied to an expression and again to its result *)

\* the largest number literal
MaxIndex == 1

\* the literals expressions are built from
Literals ==
    {StringLiteralExpr("p"), NullLiteralExpr}
        \cup {NumberLiteralExpr(i) : i \in 0 .. MaxIndex}

\* literals and the one name scopes bind
Leaves == Literals \cup {Ident("x")}

\* One more operator, literal, template or access around an expression of S,
\* with the expression side next to it and a key of keys
Over(S, side, keys) ==
    {UnaryExpr("-", e) : e \in S}
        \cup {BinaryExpr(e, "+", NumberLiteralExpr(0)) : e \in S}
        \cup {ArrayLiteralExpr(<<e>>) : e \in S}
        \cup {ArrayLiteralExpr(<<side, e>>) : e \in S}
        \cup {ObjectLiteralExpr(<<PropAssignExpr(Ident("p"), e)>>) : e \in S}
        \cup {ObjectLiteralExpr(<<PropAssignExpr(StringLiteralExpr("q"),
                                                 NullLiteralExpr),
                                  PropAssignExpr(StringLiteralExpr("p"), e)>>) :
                e \in S}
        \cup {TemplateExpr(<<e>>) : e \in S}
        \cup {TemplateExpr(<<StringLiteralExpr("p"), e>>) : e \in S}
        \cup {Prop(e, "p") : e \in S}
        \cup {Element(e, k) : e \in S, k \in keys}

\* the expressions a scope binds the name to: no name occurs in them
BoundExprs == Literals \cup Over(Literals, NumberLiteralExpr(0), Literals)

\* the expressions flattened
FlattenExprs ==
    Leaves \cup Over(Leaves, Ident("x"), Leaves)
           \cup Over(Over(Leaves, Ident("x"), Leaves), Ident("x"), Leaves)

\* the scopes: empty, or binding x
EventScopes == {<< >>} \cup {[x |-> e] : e \in BoundExprs}

InitFlatten ==
    /\ names = << >>
    /\ nameLog = << >>
    /\ dataSources = << >>
    /\ dsLog = << >>
    /\ created = 0
    /\ decl = << >>
    /\ resolver = NoResolver
    /\ NoSfn
    /\ NoAst
    /\ given \in {[op |-> "flattenExpression", expr |-> e, scope |-> s] :
                    e \in FlattenExprs, s \in EventScopes}
    /\ flattened = << >>

\* flattenExpression(expr, scope), and then flattenExpression of what that
\* returned
flatten ==
    /\ given.op = "flattenExpression"
    /\ Len(flattened) < 2
    /\ flattened # << >> => ~isRaised(flattened[1])
    /\ flattened' = Append(flattened,
            flattenExpression(IF flattened = << >> THEN given.expr
                              ELSE flattened[1], given.scope))
    /\ UNCHANGED <<given, memoVars, resolverVars, astVars, sfnVars>>

NextFlatten == flatten

SpecFlatten == InitFlatten /\ [][NextFlatten]_vars

\* the bound expressions of the scope are flattened already: flattenExpression
\* against the scope leaves each of them as it is
AlreadyFlattened(scope) ==
    \A n \in DOMAIN scope : flattenExpression(scope[n], scope) = scope[n]

\* flattenExpression returned, and was applied to what it returned
FlattenedTwice ==
    /\ given.op = "flattenExpression"
    /\ Len(flattened) = 2

\* C19 as stated: for every expression built from literals, array and object
\* literals, unary and binary operators, templates and accesses, and every
\* scope binding names to such expressions, flattening the flattened
\* expression gives an expression structurally equal to it
C19_Idempotent ==
    FlattenedTwice => flattened[2] = flattened[1]

\* C19: when every bound expression of the scope is flattened already,
\* flattening the flattened expression returns it unchanged
C19_IdempotentUnderFlattenedScope ==
    FlattenedTwice /\ AlreadyFlattened(given.scope)
        => flattened[2] = flattened[1]

\* a name bound to a flattened literal is substituted inside a template that
\* folds to a string, and flattening again changes nothing
C19_Witness ==
    /\ FlattenedTwice
    /\ given.scope # << >>
    /\ AlreadyFlattened(given.scope)
    /\ given.expr.kind = "TemplateExpr"
    /\ Ident("x") \in {given.expr.exprs[i] : i \in DOMAIN given.expr.exprs}
    /\ flattened[1].kind = "StringLiteralExpr"
    /\ flattened[2] = flattened[1]

----------------------------------------------------------------------------
(* flattenStatementsScope *)

\* the scope flattenStatementsScope returned, as opposed to a thrown error
Scope(bindings) == [kind |-> "Scope", bindings |-> bindings]

\* { [name]: flattened, ...scope }: a name bound already keeps its binding
BindUnlessBound(scope, name, flattenedExpr) ==
    [n \in DOMAIN scope \cup {name} |->
        IF n \in DOMAIN scope THEN scope[n] ELSE flattenedExpr]

\* { ...scope, [stmt.name]: flattened }
Bind(scope, name, flattenedExpr) ==
    [n \in DOMAIN scope \cup {name} |->
        IF n = name THEN flattenedExpr ELSE scope[n]]

\* stmts.reduce(...) from the i-th statement on, scope being the accumulator
RECURSIVE flattenStatementsReduce(_, _, _)
flattenStatementsReduce(stmts, i, scope) ==
    IF i > Len(stmts) THEN Scope(scope)
    ELSE LET stmt == stmts[i]
             flattenedExpr == IF "expr" \in DOMAIN stmt
                              THEN flattenExpression(stmt.expr, scope)
                              ELSE Absent
         IN  IF isRaised(flattenedExpr) THEN flattenedExpr
             ELSE flattenStatementsReduce(stmts, i + 1,
                                          Bind(scope, stmt.name, flattenedExpr))

flattenStatementsScope(stmts) == flattenStatementsReduce(stmts, 1, << >>)

\* the most declarations in a list
MaxDecls == 3

\* the names declared
DeclNames == {"x", "y"}

\* the initializers: a literal, references to the names, alone and inside a
\* template, an object literal and an access
Initializers ==
    { NumberLiteralExpr(0), Ident("x"), Ident("y"),
      TemplateExpr(<<Ident("x")>>),
      ObjectLiteralExpr(<<PropAssignExpr(Ident("p"), Ident("y"))>>),
      Prop(Ident("x"), "p") }

\* the declarations, with and without initializer
Declarations ==
    {VariableStmt(n, e) : n \in DeclNames, e \in Initializers}
        \cup {VariableDecl(n) : n \in DeclNames}

InitFlattenScope ==
    /\ names = << >>
    /\ nameLog = << >>
    /\ dataSources = << >>
    /\ dsLog = << >>
    /\ created = 0
    /\ decl = << >>
    /\ resolver = NoResolver
    /\ NoSfn
    /\ NoAst
    /\ given \in {[op |-> "flattenStatementsScope", stmts |-> stmts] :
                    stmts \in UNION {[1 .. n -> Declarations] :
                                        n \in 0 .. MaxDecls}}
    /\ flattened = << >>

\* flattenStatementsScope(stmts)
flattenScope ==
    /\ given.op = "flattenStatementsScope"
    /\ flattened = << >>
    /\ flattened' = <<flattenStatementsScope(given.stmts)>>
    /\ UNCHANGED <<given, memoVars, resolverVars, astVars, sfnVars>>

\* flattenExpression of a reference to name, against the scope returned
reference(name) ==
    /\ given.op = "flattenStatementsScope"
    /\ Len(flattened) = 1
    /\ ~isRaised(flattened[1])
    /\ flattened' = Append(flattened,
            [kind |-> "Reference", name |-> name,
             result |-> flattenExpression(Ident(name), flattened[1].bindings)])
    /\ UNCHANGED <<given, memoVars, resolverVars, astVars, sfnVars>>

NextFlattenScope ==
    \/ flattenScope
    \/ \E name \in DeclNames : reference(name)

SpecFlattenScope == InitFlattenScope /\ [][NextFlattenScope]_vars

\* the last declaration of name before the i-th statement; 0 when there is none
LastDeclaration(stmts, name, i) ==
    LET before == {j \in 1 .. i - 1 : stmts[j].name = name} IN
    IF before = {} THEN 0
    ELSE CHOOSE j \in before : \A k \in before : k <= j

\* The scope built from the declarations that precede the i-th statement: each
\* name declared before it, bound to the initializer of its last declaration
\* flattened against the scope that preceded that declaration
RECURSIVE ScopeBefore(_, _)
ScopeBefore(stmts, i) ==
    [n \in {stmts[j].name : j \in 1 .. i - 1} |->
        LET j == LastDeclaration(stmts, n, i) IN
        IF "expr" \in DOMAIN stmts[j]
        THEN flattenExpression(stmts[j].expr, ScopeBefore(stmts, j))
        ELSE Absent]

\* flattening the initializer of the i-th statement against the declarations
\* that precede it fails
InitializerFails(stmts, i) ==
    /\ "expr" \in DOMAIN stmts[i]
    /\ isRaised(flattenExpression(stmts[i].expr, ScopeBefore(stmts, i)))

ScopeReturned ==
    /\ given.op = "flattenStatementsScope"
    /\ flattened # << >>
    /\ ~isRaised(flattened[1])

\* C20: flattenStatementsScope fails exactly when flattening some initializer
\* against the declarations preceding it fails; otherwise the mapping it
\* returns binds each declared name to the initializer of its last
\* declaration, flattened against the scope of the declarations before that
\* one, a name whose last declaration has no initializer is bound to
\* undefined, and flattening a reference to such a name fails
C20_ScopeInDeclarationOrder ==
    given.op = "flattenStatementsScope" /\ flattened # << >> =>
        LET stmts == given.stmts IN
        /\ isRaised(flattened[1])
               <=> \E i \in DOMAIN stmts : InitializerFails(stmts, i)
        /\ ScopeReturned =>
            /\ flattened[1].bindings = ScopeBefore(stmts, Len(stmts) + 1)
            /\ \A n \in DeclNames :
                 LET j == LastDeclaration(stmts, n, Len(stmts) + 1) IN
                 j # 0 /\ "expr" \notin DOMAIN stmts[j]
                     => flattened[1].bindings[n] = Absent
            /\ Len(flattened) = 2 =>
                 LET j == LastDeclaration(stmts, flattened[2].name,
                                          Len(stmts) + 1) IN
                 j # 0 /\ "expr" \notin DOMAIN stmts[j]
                     => isRaised(flattened[2].result)

\* x is declared with an initializer, y after it as a reference to x, then x
\* again without initializer: y holds the first initializer of x, and the
\* reference to x fails
C20_Witness ==
    /\ ScopeReturned
    /\ Len(given.stmts) = 3
    /\ given.stmts[1] = VariableStmt("x", NumberLiteralExpr(0))
    /\ given.stmts[2] = VariableStmt("y", Ident("x"))
    /\ given.stmts[3] = VariableDecl("x")
    /\ flattened[1].bindings["y"] = NumberLiteralExpr(0)
    /\ flattened[1].bindings["x"] = Absent
    /\ Len(flattened) = 2
    /\ flattened[2].name = "x"
    /\ isRaised(flattened[2].result)

----------------------------------------------------------------------------
(* accesses into literals, and evalToConstant on its own *)

\* flattenExpression was applied to an access whose target flattens to an
\* object literal or an array literal
AccessIntoLiteral ==
    /\ given.op = "flattenExpression"
    /\ flattened # << >>
    /\ given.expr.kind \in {"PropAccessExpr", "ElementAccessExpr"}
    /\ flattenExpression(given.expr.expr, given.scope).kind
           \in {"ObjectLiteralExpr", "ArrayLiteralExpr"}

\* the member expressions of a literal
Members(literal) ==
    IF literal.kind = "ArrayLiteralExpr"
    THEN {literal.items[i] : i \in DOMAIN literal.items}
    ELSE {literal.properties[i].expr : i \in DOMAIN literal.properties}

\* C21: an access into an object or array literal returns a member of the
\* literal or fails; it is never undefined, and an array index outside the
\* items of the literal fails
C21_AccessReturnsMemberOrFails ==
    AccessIntoLiteral =>
        LET target == flattenExpression(given.expr.expr, given.scope)
            key == getPropertyAccessKeyFlatten(given.expr, given.scope)
        IN  /\ flattened[1] # Absent
            /\ isRaised(flattened[1]) \/ flattened[1] \in Members(target)
            /\ /\ target.kind = "ArrayLiteralExpr"
               /\ ~isRaised(key)
               /\ key.kind = "number"
               /\ key.number \notin 0 .. Len(target.items) - 1
               => isRaised(flattened[1])

\* the values external references resolve to
ReferenceValues ==
    {String("p"), Number(0), JsUndefined, Object([p |-> Number(1)])}

\* The expressions evalToConstant is asked about: the flattened ones, external
\* references and accesses into them, a call and its negation
ConstantExprs ==
    FlattenExprs
        \cup {ReferenceExpr(v) : v \in ReferenceValues}
        \cup {Prop(ReferenceExpr(v), n) : v \in ReferenceValues, n \in {"p", "q"}}
        \cup {Call(Ident("x")), UnaryExpr("-", Call(Ident("x"))),
              UnaryExpr("!", NumberLiteralExpr(0))}

InitConstant ==
    /\ names = << >>
    /\ nameLog = << >>
    /\ dataSources = << >>
    /\ dsLog = << >>
    /\ created = 0
    /\ decl = << >>
    /\ resolver = NoResolver
    /\ NoSfn
    /\ NoAst
    /\ given \in {[op |-> "evalToConstant", expr |-> e] : e \in ConstantExprs}
    /\ flattened = << >>

\* evalToConstant(expr)
evaluate ==
    /\ given.op = "evalToConstant"
    /\ flattened = << >>
    /\ flattened' = <<evalToConstant(given.expr)>>
    /\ UNCHANGED <<given, memoVars, resolverVars, astVars, sfnVars>>

NextConstant == evaluate

SpecConstant == InitConstant /\ [][NextConstant]_vars

\* C22: evalToConstant never raises; it returns the unwrapped "not a constant"
\* for a unary negation whose operand is not a constant number and for a
\* property access into anything but a constant object that has the key
C22_EvalNeverRaises ==
    given.op = "evalToConstant" /\ flattened # << >> =>
        /\ ~isRaised(flattened[1])
        /\ given.expr = UnaryExpr("-", Call(Ident("x")))
               => flattened[1] = Absent

----------------------------------------------------------------------------
(* $SFN: waitFor, waitUntil, map, forEach and parallel *)

\* ASL.ContextName, and the kind of the other context calls are compiled in
ASLContextName == "Amazon States Language"
VTLContextName == "Velocity Template"

\* an inline function; its body is named by the statement its step() is
FunctionExpr(parameters, body) ==
    [kind |-> "FunctionExpr", parameters |-> parameters, body |-> body]
FunctionBody(first) == [kind |-> "BlockStmt", first |-> first]

\* an argument of a call
Argument(name, e) == [name |-> name, expr |-> e]

\* a call of a member of $SFN
SfnCall(callee, args) == [kind |-> "CallExpr", callee |-> callee, args |-> args]

\* call.getArgument(name)?.expr
getArgument(call, name) ==
    LET found == {i \in DOMAIN call.args : call.args[i].name = name} IN
    IF found = {} THEN Absent
    ELSE call.args[CHOOSE i \in found : \A j \in found : i <= j].expr

\* props.getProperty(name)
getProperty(props, name) ==
    LET found == {i \in DOMAIN props.properties :
                    isNamed(props.properties[i], name)} IN
    IF found = {} THEN Absent
    ELSE props.properties[CHOOSE i \in found : \A j \in found : i <= j]

\* isMapOrForEach(call)
isMapOrForEach(call) == call.callee \in {"map", "forEach"}

\* ASL.toJsonPath(expr): the path of a reference
toJsonPath(e) ==
    IF e.kind \in {"Identifier", "PropAccessExpr", "ElementAccessExpr"}
    THEN [kind |-> "JsonPath", of |-> e]
    ELSE Raised("cannot be evaluated to a JSON path")

\* context.getStateName(body.step()!)
getStateName(body) == body.first

\* context.execute(body)
States(body) == [kind |-> "States", of |-> body]

\* What compiling a call comes to: the value returned or the error thrown,
\* and the bodies context.execute compiled on the way
Returns(value, executed) ==
    [status |-> "returned", value |-> value, executed |-> executed]
Throws(error, executed) ==
    [status |-> "threw", error |-> error, executed |-> executed]

waitFor(call, context) ==
    IF context.kind # ASLContextName
    THEN Throws(Raised("$SFN.wait is only available in the ASL context"), << >>)
    ELSE IF call.args = << >>
    THEN Throws(Raised("TypeError: Cannot read properties of undefined"), << >>)
    ELSE LET seconds == call.args[1].expr IN
         IF seconds = Absent
         THEN Throws(Raised("the 'seconds' argument is required"), << >>)
         ELSE IF seconds.kind = "NumberLiteralExpr"
         THEN Returns([Type |-> "Wait", Seconds |-> seconds.value], << >>)
         ELSE LET path == toJsonPath(seconds) IN
              IF isRaised(path) THEN Throws(path, << >>)
              ELSE Returns([Type |-> "Wait", SecondsPath |-> path], << >>)

waitUntil(call, context) ==
    IF context.kind # ASLContextName
    THEN Throws(Raised("$SFN.wait is only available in the ASL context"), << >>)
    ELSE LET timestamp == IF call.args = << >> THEN Absent
                          ELSE call.args[1].expr IN
         IF timestamp = Absent
         THEN Throws(Raised("the 'timestamp' argument is required"), << >>)
         ELSE IF timestamp.kind = "StringLiteralExpr"
         THEN Returns([Type |-> "Wait", Timestamp |-> timestamp.value], << >>)
         ELSE LET path == toJsonPath(timestamp) IN
              IF isRaised(path) THEN Throws(path, << >>)
              ELSE Returns([Type |-> "Wait", TimestampPath |-> path], << >>)

\* Object.fromEntries(callbackfn.parameters.map(...)): the last parameter of a
\* name decides
MapParameters(parameters, arrayPath) ==
    [n \in {parameters[i] : i \in DOMAIN parameters} |->
        LET i == CHOOSE i \in DOMAIN parameters :
                    /\ parameters[i] = n
                    /\ \A j \in DOMAIN parameters : parameters[j] = n => j <= i
        IN  IF i = 1 THEN [kind |-> "JsonPath", of |-> "$$.Map.Item.Value"]
            ELSE IF i = 2 THEN [kind |-> "JsonPath", of |-> "$$.Map.Item.Index"]
            ELSE arrayPath]

\* the Map state, with MaxConcurrency when it is given and not 0
MapTask(maxConcurrency, callbackfn, arrayPath) ==
    LET task == [Type |-> "Map",
                 Iterator |-> [States |-> States(callbackfn.body),
                               StartAt |-> getStateName(callbackfn.body)],
                 ItemsPath |-> arrayPath,
                 Parameters |-> MapParameters(callbackfn.parameters, arrayPath)]
    IN  IF maxConcurrency.kind = "number" /\ maxConcurrency.number # 0
        THEN task @@ [MaxConcurrency |-> maxConcurrency.number]
        ELSE task

\* a maxConcurrency of 0 or less is let through
MaxConcurrencyUnchecked(props) ==
    IF props = Absent THEN JsUndefined
    ELSE IF props.kind = "ObjectLiteralExpr" THEN
        LET maxConcurrencyProp == getProperty(props, "maxConcurrency") IN
        IF /\ maxConcurrencyProp.kind = "PropAssignExpr"
           /\ maxConcurrencyProp.expr.kind = "NumberLiteralExpr"
        THEN Number(maxConcurrencyProp.expr.value)
        ELSE Raised("property 'maxConcurrency' must be a NumberLiteralExpr")
    ELSE Raised("argument 'props' must be an ObjectLiteralExpr")

\* the maxConcurrency of mapOrForEach: undefined without props, the number of
\* the literal, or an error
MaxConcurrencyOf(props) ==
    IF props = Absent THEN JsUndefined
    ELSE IF props.kind = "ObjectLiteralExpr" THEN
        LET maxConcurrencyProp == getProperty(props, "maxConcurrency") IN
        IF /\ maxConcurrencyProp.kind = "PropAssignExpr"
           /\ maxConcurrencyProp.expr.kind = "NumberLiteralExpr"
        THEN IF maxConcurrencyProp.expr.value <= 0
             THEN Raised("maxConcurrency must be > 0")
             ELSE Number(maxConcurrencyProp.expr.value)
        ELSE Raised("property 'maxConcurrency' must be a NumberLiteralExpr")
    ELSE Raised("argument 'props' must be an ObjectLiteralExpr")

\* the body of the callback is compiled before the context is looked at
mapOrForEachCompilingFirst(kind, call, context) ==
    LET callbackfn == getArgument(call, "callbackfn") IN
    IF callbackfn.kind = "FunctionExpr"
    THEN Throws(Raised("$SFN." \o kind \o " is only supported by ASL"),
                <<callbackfn.body>>)
    ELSE Throws(Raised("missing callbackfn in $SFN.map"), << >>)

mapOrForEach(kind, call, context) ==
    IF context.kind # ASLContextName
    THEN Throws(Raised("$SFN." \o kind \o " is only supported by ASL"), << >>)
    ELSE IF ~isMapOrForEach(call)
    THEN Throws(Raised("invalid arguments to $SFN.map"), << >>)
    ELSE LET callbackfn == getArgument(call, "callbackfn") IN
         IF callbackfn = Absent \/ callbackfn.kind # "FunctionExpr"
         THEN Throws(Raised("missing callbackfn in $SFN.map"), << >>)
         ELSE LET executed == <<callbackfn.body>>
                  maxConcurrency == MaxConcurrencyOf(getArgument(call, "props"))
                  array == getArgument(call, "array")
              IN  IF isRaised(maxConcurrency)
                  THEN Throws(maxConcurrency, executed)
                  ELSE IF array = Absent
                  THEN Throws(Raised("missing argument 'array'"), executed)
                  ELSE LET arrayPath == toJsonPath(array) IN
                       IF isRaised(arrayPath) THEN Throws(arrayPath, executed)
                       ELSE Returns(MapTask(maxConcurrency, callbackfn,
                                            arrayPath), executed)

forEach(call, context) == mapOrForEach("forEach", call, context)

map(call, context) == mapOrForEach("map", call, context)

parallel(call, context) ==
    IF context.kind # ASLContextName
    THEN Throws(Raised("$SFN.SFN is only supported by ASL"), << >>)
    ELSE LET paths == getArgument(call, "paths") IN
         IF paths = Absent
         THEN Throws(Raised("missing required argument 'paths'"), << >>)
         ELSE IF paths.kind # "ArrayLiteralExpr"
         THEN Throws(Raised("invalid arguments to $SFN.parallel"), << >>)
         ELSE IF \E i \in DOMAIN paths.items :
                    paths.items[i].kind # "FunctionExpr"
         THEN Throws(Raised("each parallel path must be an inline FunctionExpr"),
                     << >>)
         ELSE Returns(
                [Type |-> "Parallel",
                 Branches |-> [i \in DOMAIN paths.items |->
                     [StartAt |-> getStateName(paths.items[i].body),
                      States |-> States(paths.items[i].body)]]],
                [i \in DOMAIN paths.items |-> paths.items[i].body])

\* the largest maxConcurrency literal
MaxConcurrencyLiteral == 2

\* The props of a map or forEach: none, an object literal with a number as
\* maxConcurrency under either kind of name, with something else as
\* maxConcurrency, without it, and something that is no object literal
MapProps ==
    {Absent, Ident("props"), NumberLiteralExpr(2), ObjectLiteralExpr(<< >>),
     ObjectLiteralExpr(<<PropAssignExpr(Ident("other"), NumberLiteralExpr(1))>>),
     ObjectLiteralExpr(<<SpreadAssignExpr(Ident("props"))>>)}
        \cup {ObjectLiteralExpr(<<PropAssignExpr(name, NumberLiteralExpr(n))>>) :
                name \in {Ident("maxConcurrency"),
                          StringLiteralExpr("maxConcurrency")},
                n \in -1 .. MaxConcurrencyLiteral}
        \cup {ObjectLiteralExpr(<<PropAssignExpr(Ident("maxConcurrency"), e)>>) :
                e \in {StringLiteralExpr("2"), Ident("n"),
                       UnaryExpr("-", NumberLiteralExpr(1))}}

\* the callbacks: none, inline functions, and a reference to a function
Callbacks ==
    {Absent, Ident("f"),
     FunctionExpr(<<"item">>, FunctionBody("s1")),
     FunctionExpr(<<"item", "index", "items">>, FunctionBody("s2"))}

\* the arrays mapped over: none, a reference, and a literal
MapArrays == {Absent, Ident("items"), ArrayLiteralExpr(<< >>)}

\* the arguments that are given, in the order of the signature
Given(args) == SelectSeq(args, LAMBDA a : a.expr # Absent)

MapCalls ==
    {SfnCall(callee, Given(<<Argument("array", array), Argument("props", props),
                             Argument("callbackfn", callbackfn)>>)) :
        callee \in {"map", "forEach", "parallel"},
        array \in MapArrays, props \in MapProps, callbackfn \in Callbacks}

WaitCalls ==
    {SfnCall("waitFor", args) :
        args \in {<< >>} \cup {<<Argument("seconds", e)>> :
                    e \in {Absent, NumberLiteralExpr(1), StringLiteralExpr("t"),
                           Ident("t"), ArrayLiteralExpr(<< >>)}}}

ParallelCalls ==
    {SfnCall("parallel", Given(<<Argument("paths", paths)>>)) :
        paths \in {Absent, Ident("paths"), ArrayLiteralExpr(<< >>),
                   ArrayLiteralExpr(<<FunctionExpr(<< >>, FunctionBody("s1"))>>),
                   ArrayLiteralExpr(<<FunctionExpr(<< >>, FunctionBody("s1")),
                                      FunctionExpr(<< >>, FunctionBody("s2"))>>),
                   ArrayLiteralExpr(<<FunctionExpr(<< >>, FunctionBody("s1")),
                                      Ident("f")>>)}}

\* the contexts a call is compiled in
CallContexts == {[kind |-> ASLContextName], [kind |-> VTLContextName]}

InitSfn ==
    /\ names = << >>
    /\ nameLog = << >>
    /\ dataSources = << >>
    /\ dsLog = << >>
    /\ created = 0
    /\ decl = << >>
    /\ resolver = NoResolver
    /\ NoFlatten
    /\ NoAst
    /\ invoked \in
           {[fn |-> fn, call |-> call, context |-> context] :
                fn \in {"map", "forEach"}, call \in MapCalls,
                context \in CallContexts}
           \cup {[fn |-> fn, call |-> call, context |-> context] :
                fn \in {"waitFor", "waitUntil"}, call \in WaitCalls,
                context \in CallContexts}
           \cup {[fn |-> "parallel", call |-> call, context |-> context] :
                call \in ParallelCalls, context \in CallContexts}
    /\ emitted = [status |-> "none"]

\* the call is compiled by the member of $SFN it names
compile ==
    /\ invoked.fn # "none"
    /\ emitted.status = "none"
    /\ emitted' =
           CASE invoked.fn = "waitFor" -> waitFor(invoked.call, invoked.context)
             [] invoked.fn = "waitUntil" ->
                    waitUntil(invoked.call, invoked.context)
             [] invoked.fn = "map" -> map(invoked.call, invoked.context)
             [] invoked.fn = "forEach" -> forEach(invoked.call, invoked.context)
             [] invoked.fn = "parallel" -> parallel(invoked.call, invoked.context)
    /\ UNCHANGED <<invoked, memoVars, resolverVars, astVars, flattenVars>>

NextSfn == compile

SpecSfn == InitSfn /\ [][NextSfn]_vars

\* a map or forEach was compiled in the ASL context, with an inline callback
\* and a reference as the array
MapCompiled ==
    /\ invoked.fn \in {"map", "forEach"}
    /\ emitted.status # "none"
    /\ invoked.context.kind = ASLContextName
    /\ isMapOrForEach(invoked.call)
    /\ getArgument(invoked.call, "callbackfn").kind = "FunctionExpr"
    /\ getArgument(invoked.call, "array").kind = "Identifier"

\* props is an object literal whose maxConcurrency is a number literal
HasConcurrencyLiteral(props) ==
    /\ props.kind = "ObjectLiteralExpr"
    /\ \E i \in DOMAIN props.properties :
         /\ isNamed(props.properties[i], "maxConcurrency")
         /\ props.properties[i].expr.kind = "NumberLiteralExpr"

\* the number of that literal
ConcurrencyLiteral(props) ==
    LET i == CHOOSE i \in DOMAIN props.properties :
                isNamed(props.properties[i], "maxConcurrency")
    IN  props.properties[i].expr.value

\* C23: compiling a map or forEach fails when maxConcurrency is a number
\* literal of 0 or less, returns a Map state with MaxConcurrency = n when it
\* is a number literal n above 0, returns a Map state without MaxConcurrency
\* when there are no props, and fails for any other props
C23_MaxConcurrency ==
    MapCompiled =>
        LET props == getArgument(invoked.call, "props") IN
        IF props = Absent
        THEN /\ emitted.status = "returned"
             /\ emitted.value.Type = "Map"
             /\ "MaxConcurrency" \notin DOMAIN emitted.value
        ELSE IF HasConcurrencyLiteral(props) /\ ConcurrencyLiteral(props) > 0
        THEN /\ emitted.status = "returned"
             /\ emitted.value.Type = "Map"
             /\ "MaxConcurrency" \in DOMAIN emitted.value
             /\ emitted.value.MaxConcurrency = ConcurrencyLiteral(props)
        ELSE emitted.status = "threw"

\* a forEach with { maxConcurrency: 2 } was compiled to a Map state with
\* MaxConcurrency 2
C23_Witness ==
    /\ MapCompiled
    /\ invoked.fn = "forEach"
    /\ getArgument(invoked.call, "props") =
           ObjectLiteralExpr(<<PropAssignExpr(Ident("maxConcurrency"),
                                              NumberLiteralExpr(2))>>)
    /\ emitted.status = "returned"
    /\ emitted.value.MaxConcurrency = 2

\* C24: outside the ASL context waitFor, waitUntil, map, forEach and parallel
\* throw the error of the context check, whatever their arguments, and no
\* callback body is compiled
C24_ContextCheckedFirst ==
    /\ invoked.fn # "none"
    /\ emitted.status # "none"
    /\ invoked.context.kind # ASLContextName
    => /\ emitted.status = "threw"
       /\ emitted.executed = << >>
       /\ emitted.error.message \in
              {"$SFN.wait is only available in the ASL context",
               "$SFN.map is only supported by ASL",
               "$SFN.forEach is only supported by ASL",
               "$SFN.SFN is only supported by ASL"}

\* a map with an inline callback and valid arguments was compiled outside the
\* ASL context: it threw and compiled nothing
C24_Witness ==
    /\ invoked.fn = "map"
    /\ invoked.context.kind = VTLContextName
    /\ isMapOrForEach(invoked.call)
    /\ getArgument(invoked.call, "callbackfn").kind = "FunctionExpr"
    /\ getArgument(invoked.call, "array").kind = "Identifier"
    /\ getArgument(invoked.call, "props") = Absent
    /\ emitted.status = "threw"
    /\ emitted.executed = << >>

----------------------------------------------------------------------------
(* step() of the body of an inline function *)

\* new FunctionExpr([], body): the body is the last root
NewFunctionExpr ==
    /\ Len(nodes) < limit
    /\ Len(roots) >= 1
    /\ nodes[TopRoot(0)].kind = "BlockStmt"
    /\ LET id == NewId(nodes)
           made == Append(nodes,
                       [BaseNode("FunctionExpr", "Expr") EXCEPT
                           !.body = TopRoot(0)])
       IN  Constructed(SetParent(made, TopRoot(0), id),
                       Append(PopRoots(1), id))

MaxCallbackNodes == 6

InitCallback ==
    /\ names = << >>
    /\ nameLog = << >>
    /\ dataSources = << >>
    /\ dsLog = << >>
    /\ created = 0
    /\ decl = << >>
    /\ resolver = NoResolver
    /\ NoSfn
    /\ NoFlatten
    /\ EmptyAst(MaxCallbackNodes)

NextCallback ==
    \/ NewBreakStmt
    \/ \E name \in VariableNames : NewVariableDecl(name)
    \/ \E k \in 0..Len(roots) : NewBlockStmt(k)
    \/ NewFunctionExpr
    \/ NewExprStmt
    \/ \E n \in 1..Len(nodes) : step(n)

SpecCallback == InitCallback /\ [][NextCallback]_vars

\* step() was asked of the body of an inline function
BodyStepped ==
    /\ answer.op = "step"
    /\ nodes[answer.node].kind = "BlockStmt"
    /\ nodes[answer.node].parent # Nil
    /\ nodes[nodes[answer.node].parent].kind = "FunctionExpr"

\* C25: step() of the body of an inline function is never a statement outside
\* the body, also when the body is empty or holds only declarations without
\* initializer
C25_StartInsideCallback ==
    BodyStepped /\ answer.result # Nil
        => answer.node \in AncestorsOf(answer.result)

----------------------------------------------------------------------------
(* step() of a catch clause *)

MaxCatchNodes == 7

InitCatch ==
    /\ names = << >>
    /\ nameLog = << >>
    /\ dataSources = << >>
    /\ dsLog = << >>
    /\ created = 0
    /\ decl = << >>
    /\ resolver = NoResolver
    /\ NoSfn
    /\ NoFlatten
    /\ EmptyAst(MaxCatchNodes)

NextCatch ==
    \/ NewBreakStmt
    \/ \E name \in VariableNames : NewVariableDecl(name)
    \/ \E k \in 0..Len(roots) : NewBlockStmt(k)
    \/ \E withDecl \in BOOLEAN : NewCatchClause(withDecl)
    \/ \E hasCatch, hasFinally \in BOOLEAN : NewTryStmt(hasCatch, hasFinally)
    \/ \E n \in 1..Len(nodes) : step(n)

SpecCatch == InitCatch /\ [][NextCatch]_vars

\* step() was asked of the catch clause of a try statement whose block starts
\* with an executable statement
CatchStepped ==
    /\ answer.op = "step"
    /\ nodes[answer.node].kind = "CatchClause"
    /\ nodes[answer.node].parent # Nil
    /\ ~isEmpty(nodes, nodes[answer.node].block)
    /\ nodes[firstStmt(nodes, nodes[answer.node].block)].kind = "BreakStmt"

\* C26: step() of a catch clause whose block starts with an executable
\* statement is a statement inside that block, with and without an error
\* variable
C26_CatchEntersBody ==
    CatchStepped =>
        /\ answer.result \in 1 .. Len(nodes)
        /\ nodes[answer.node].block \in AncestorsOf(answer.result)

----------------------------------------------------------------------------
(* what step() and exit() resolve to *)

MaxResolveNodes == 6

InitResolve ==
    /\ names = << >>
    /\ nameLog = << >>
    /\ dataSources = << >>
    /\ dsLog = << >>
    /\ created = 0
    /\ decl = << >>
    /\ resolver = NoResolver
    /\ NoSfn
    /\ NoFlatten
    /\ EmptyAst(MaxResolveNodes)

NextResolve ==
    \/ NewIdentifier
    \/ NewBreakStmt
    \/ \E name \in VariableNames : NewVariableDecl(name)
    \/ \E k \in 0..Len(roots) : NewBlockStmt(k)
    \/ NewWhileStmt
    \/ NewDoStmt
    \/ \E withDecl \in BOOLEAN : NewCatchClause(withDecl)
    \/ \E hasCatch, hasFinally \in BOOLEAN : NewTryStmt(hasCatch, hasFinally)
    \/ \E n \in 1..Len(nodes) : step(n)
    \/ \E n \in 1..Len(nodes) : exit(n)

SpecResolve == InitResolve /\ [][NextResolve]_vars

\* the nodes step() passes through: a try statement, a block, a catch clause,
\* a do statement and a declaration without initializer
PassedThrough(n) ==
    \/ nodes[n].kind \in {"TryStmt", "BlockStmt", "CatchClause", "DoStmt"}
    \/ IsDeclaration(n)

\* step() or exit() was asked and returned a statement
Resolved ==
    /\ answer.op \in {"step", "exit"}
    /\ answer.result \in 1..Len(nodes)

\* C27: the statement step() or exit() returns is never a try statement, a
\* block, a catch clause, a do statement or a declaration without
\* initializer, and its own step() is itself
C27_ResolvesToExecutable ==
    Resolved =>
        /\ ~PassedThrough(answer.result)
        /\ Step(nodes, answer.result) = answer.result

\* step() of the catch clause of a try statement passed through the clause's
\* block and the declaration it starts with and returned the break statement
\* after the declaration
C27_Witness ==
    /\ Resolved
    /\ answer.op = "step"
    /\ nodes[answer.node].kind = "CatchClause"
    /\ nodes[answer.node].parent # Nil
    /\ nodes[answer.result].kind = "BreakStmt"
    /\ nodes[answer.result].prev # Nil
    /\ IsDeclaration(nodes[answer.result].prev)

----------------------------------------------------------------------------
(* a handler is never the node that raised, nor around it *)

\* h is node n or a node that contains n
IsOrContains(h, n) == h = n \/ h \in AncestorsOf(n)

\* C28: n.throw() and n.findCatchClause() are never n itself or a node that
\* contains n, for a node n of any kind
C28_NeverRoutedToItself ==
    answer.op = "throw" =>
        /\ answer.result \in 1..Len(nodes)
               => ~IsOrContains(answer.result, answer.node)
        /\ findCatchClause(nodes, answer.node) \in 1..Len(nodes)
               => ~IsOrContains(findCatchClause(nodes, answer.node), answer.node)

----------------------------------------------------------------------------
(* the induction variable of a for-in or for-of statement *)

\* the for-in and for-of statements before n in its block
PrecedingLoops(n) ==
    {f \in PrecedingSiblings(n) : nodes[f].kind \in {"ForInStmt", "ForOfStmt"}}

\* the nodes a scope binds its names to
BoundNodes(scope) == {scope[name] : name \in DOMAIN scope}

\* C29: the scope of a statement that follows a for-in or for-of statement in
\* the same block does not hold the induction variable of that loop
C29_LoopVariableInsideLoopOnly ==
    answer.op = "getLexicalScope" =>
        \A f \in PrecedingLoops(answer.node) :
            nodes[f].variableDecl \notin BoundNodes(answer.result)

----------------------------------------------------------------------------
(* the queries return on every tree *)

\* C30: on a tree in which every catch clause belongs to a try statement,
\* step(), exit(), throw() and isTerminal() return for every node: none of
\* them raises an error
C30_QueriesNeverRaise ==
    Linked =>
        /\ answer.op \in {"step", "exit", "throw"} => answer.result # TypeError
        /\ answer.op = "isTerminal" => ~answer.raised

====
